---- MODULE Spec2Model ----
(***************************************************************************)
(* Manifest construction in the lhotse recipes: prepare_ami (ami.py and    *)
(* ami2.py), prepare_safet, prepare_chime (chime5.py and chime6.py) and    *)
(* prepare_ru_open_stt.                                                    *)
(*                                                                         *)
(* One behaviour is one call of one recipe over one corpus.  The corpus    *)
(* (the audio files and the transcript records on disk) is chosen in Init  *)
(* and never changes; the actions are the loops and statements of the      *)
(* recipe, in program order.  An uncaught Python exception ends the run    *)
(* with pc = "failed" and the kind of exception in error.                  *)
(*                                                                         *)
(* Times are integers in tenths of a second.  Strings the code takes       *)
(* apart (speaker fields, ids, time stamps) are sequences of their parts;  *)
(* strings it only compares are TLA+ strings.                              *)
(***************************************************************************)
EXTENDS Integers, Sequences, FiniteSets, TLC

VARIABLES
    recipe,         \* which prepare_* function runs
    corpus,         \* the files under corpus_dir: [is_dir, audio, trans]
                    \* (with the argument max_pause for ami2.py)
    output_dir,     \* TRUE when an output directory is given, FALSE for None
    pc,             \* position in the recipe
    error,          \* the exception that ended the run, "none" while it runs
    part,           \* index of the current element of dataset_parts, 0 before the loop
    i,              \* index of the next record of the current loop
    recordings,     \* list recordings
    supervisions,   \* list supervisions (segments in the AMI recipe)
    supervision_id, \* the sequence counter
    WORDLIST,       \* safet.py module global
    annotation_by_id, \* ami.py: meeting id -> list of AmiSegmentAnnotation;
                      \* ami2.py: what parse_ami_annotations returned
    validated,      \* parts whose validate_recordings_and_supervisions passed
    split_meeting,  \* the meeting id whose split is looked up
    splits,         \* the splits that hold it in ami.py and in ami2.py:
                    \* <<>> before the lookup, then <<the set of splits>>
    fixed,          \* chime6.py: recording_set_fixed and supervision_set_fixed,
                    \* the pair handed to the validation of the current part
    written,        \* files written: <<part name, "recordings"|"supervisions">>
    manifests,      \* the dict that is returned: list of [part, recordings, supervisions]
    counters,       \* two values of supervision_id within one partition
    uttids          \* the ids generated for them, <<>> before

vars == <<recipe, corpus, output_dir, pc, error, part, i, recordings,
          supervisions, supervision_id, WORDLIST, annotation_by_id,
          validated, fixed, written, manifests, counters, uttids,
          split_meeting, splits>>

(***************************************************************************)
(* Bounds                                                                  *)
(***************************************************************************)
\* Most transcript records (lines, JSON entries, transcript files) in a corpus.
MaxLines == 2

(***************************************************************************)
(* Generic helpers                                                         *)
(***************************************************************************)
Range(s) == {s[k] : k \in 1..Len(s)}

BoundedSeq(S, n) == UNION {[1..k -> S] : k \in 0..n}

\* All subsequences of s (a directory holds any subset of the candidate
\* files, listed in directory order).
SubSeqs(s) ==
    {SelectSeq(s, LAMBDA e: e \in chosen) : chosen \in SUBSET Range(s)}

StartsWith(s, prefix) ==
    /\ Len(s) >= Len(prefix)
    /\ SubSeq(s, 1, Len(prefix)) = prefix

\* s[:-1]
DropLast(s) == SubSeq(s, 1, Len(s) - 1)

DigitChar(d) == CASE d = 0 -> "0" [] d = 1 -> "1" [] d = 2 -> "2" [] d = 3 -> "3"
                  [] d = 4 -> "4" [] d = 5 -> "5" [] d = 6 -> "6" [] d = 7 -> "7"
                  [] d = 8 -> "8" [] d = 9 -> "9"

\* str(n) for n >= 0, as the sequence of its decimal digits
RECURSIVE Str(_)
Str(n) == IF n < 10 THEN <<DigitChar(n)>>
          ELSE Str(n \div 10) \o <<DigitChar(n % 10)>>

\* s.zfill(width) for a string without a leading sign
RECURSIVE Zfill(_, _)
Zfill(s, width) == IF Len(s) >= width THEN s ELSE Zfill(<<"0">> \o s, width)

ZfillWidth == 6

\* f'{prefix}_{supervision_id_str}' with supervision_id_str = str(counter).zfill(6)
Uttid(prefix, counter) == prefix \o <<"_">> \o Zfill(Str(counter), ZfillWidth)

(***************************************************************************)
(* Library functions of lhotse that the recipes call                       *)
(***************************************************************************)
\* check_and_rglob(dir, pattern): the matches; raises when there is none.
CheckAndRglobOk(matches) == Len(matches) > 0

\* validate_recordings_and_supervisions: every supervision's recording_id
\* resolves to a recording of the collection, and the partition is not empty.
ValidateRecordingsAndSupervisions(recs, sups) ==
    /\ Len(recs) > 0
    /\ \A k \in 1..Len(sups) :
          \E j \in 1..Len(recs) : recs[j].id = sups[k].recording_id

\* recording_set.filter(pred) / supervision_set.filter(pred)
Filter(set, Pred(_)) == SelectSeq(set, Pred)

(***************************************************************************)
(* Recipes and their dataset_parts                                         *)
(***************************************************************************)
Recipes == {"ami", "ami2", "safet", "chime5", "chime6", "ru_open_stt"}

DatasetParts(rcp) ==
    CASE rcp = "safet" -> <<"dev", "dev_clean", "train">>
      [] rcp = "chime5" -> <<"dev">>
      [] rcp = "chime6" -> <<"dev", "train">>
      [] rcp = "ru_open_stt" -> <<"val", "train">>
      [] rcp \in {"ami", "ami2"} -> <<"train", "dev", "test">>

PartName == DatasetParts(recipe)[part]
LastPart == part = Len(DatasetParts(recipe))

\* The directory of the corpus a part reads.
DirOf(rcp, p) ==
    IF rcp = "safet" /\ p \in {"dev", "dev_clean"} THEN "dev" ELSE p

PartAudio == SelectSeq(corpus.audio, LAMBDA f: f.dir = DirOf(recipe, PartName))
PartTrans == SelectSeq(corpus.trans, LAMBDA l: l.dir = DirOf(recipe, PartName))

\* An audio file on disk; readable is FALSE for a zero-length file or one with
\* an unrecognized header.
AudioFile(dir, id, duration, readable) ==
    [dir |-> dir, id |-> id, duration |-> duration, readable |-> readable]

\* Recording.from_file(audio_path) raises for a file it cannot read.
FromFileRaises(files) == \E k \in 1..Len(files) : ~files[k].readable

\* Recording.from_file(audio_path): the id is the file's stem.
RecordingFromFile(f) == [id |-> f.id, duration |-> f.duration]

RECURSIVE LoadRecordings(_)
LoadRecordings(files) ==
    IF files = <<>> THEN <<>>
    ELSE <<RecordingFromFile(Head(files))>> \o LoadRecordings(Tail(files))

(***************************************************************************)
(* SAFE-T                                                                  *)
(***************************************************************************)
Guard == 1          \* the 0.1 s subtracted from every duration
UNK == "<UNK>"

Background == <<"b","a","c","k","g","r","o","u","n","d">>
Spk1Field == <<"s","p","k","1",":">>
BackgroundNoiseField == Background \o <<"_","n","o","i","s","e","1",":">>
MixedSuffix == <<"_","m","i","x","e","d">>
DevMixedSuffix == <<"_","d","e","v">> \o MixedSuffix
StemA == <<"a">>
StemB == <<"b">>

SafetAudioCandidates ==
    << AudioFile("dev",   StemA \o DevMixedSuffix, 300, TRUE),
       AudioFile("dev",   StemB \o DevMixedSuffix, 0,   FALSE),
       AudioFile("train", StemA \o MixedSuffix,    302, TRUE) >>

SafetLine(dir, stem, parses, st, en, spk, words) ==
    [dir |-> dir, stem |-> stem, parses |-> parses, start_time |-> st,
     end_time |-> en, speaker |-> spk, words |-> words]

\* Lines "<start> <end> <speaker>: <words>" of the .tsv transcripts.  A line
\* with parses = FALSE has fewer than three fields or a time float() rejects.
SafetLines ==
    { SafetLine("dev", StemA, TRUE, 100, 120, Spk1Field, <<"fire">>),
      SafetLine("dev", StemA, TRUE, 100, 105, BackgroundNoiseField, <<"fire">>),
      SafetLine("dev", StemA, TRUE, 299, 302, Spk1Field, <<"fire">>),
      SafetLine("dev", StemA, TRUE, 290, 301, Spk1Field, <<"fire">>),
      SafetLine("dev", StemA, TRUE, 100, 100, Spk1Field, <<"fire">>),
      SafetLine("dev", StemA, TRUE, 100, 120, Spk1Field, <<"zzz">>),
      SafetLine("dev", StemA, TRUE, 100, 120, Background, <<"fire">>),
      SafetLine("dev", StemA, FALSE, 0, 0, <<>>, <<>>),
      SafetLine("dev", StemB, TRUE, 100, 120, Spk1Field, <<"fire">>),
      SafetLine("train", StemA, TRUE, 41, 303, Spk1Field, <<"fire", "zzz">>),
      SafetLine("train", StemA, TRUE, 100, 120, Spk1Field, <<"zzz">>),
      SafetLine("train", StemA, TRUE, 100, 105, BackgroundNoiseField, <<"fire">>) }

Lexicon == {"FIRE"}

\* case_normalize(w): w.upper()
CaseNormalize(w) ==
    CASE w = "fire" -> "FIRE" [] w = "zzz" -> "ZZZ" [] OTHER -> w

\* process_transcript at the level of words: each non-empty word becomes
\* itself (upper-cased) when it is in WORDLIST and UNK otherwise; the result
\* is empty when no word was in WORDLIST.
RECURSIVE MapWords(_, _)
MapWords(words, wordlist) ==
    IF words = <<>> THEN <<>>
    ELSE LET w == CaseNormalize(Head(words))
             rest == MapWords(Tail(words), wordlist)
         IN IF w = "" THEN rest
            ELSE IF w \in wordlist THEN <<w>> \o rest
            ELSE <<UNK>> \o rest

ProcessTranscript(words, wordlist) ==
    LET out_list_words == MapWords(words, wordlist)
        if_only_unk == \A k \in 1..Len(out_list_words) : out_list_words[k] = UNK
    IN IF if_only_unk THEN <<>> ELSE out_list_words

\* The text of a line in a part: as read for 'dev', normalized otherwise.
SafetCleaned(p, words, wordlist) ==
    IF p = "dev" THEN words ELSE ProcessTranscript(words, wordlist)

\* Mutant: the speaker test is missing.
SafetSkipsEmptyOnly(speaker_id, cleaned_transcrition) ==
    cleaned_transcrition = <<>>

\* The two `continue` tests of the line loop.
SafetSkips(speaker_id, cleaned_transcrition) ==
    \/ cleaned_transcrition = <<>>
    \/ StartsWith(speaker_id, Background)

SafetRecordingId(p, stem) ==
    IF p \in {"dev", "dev_clean"} THEN stem \o DevMixedSuffix
    ELSE stem \o MixedSuffix

\* start and duration are binary64 numbers: float(line_parts[0]) and
\* float(line_parts[1]) - float(line_parts[0]) - 0.1.  Their binary64 sum,
\* the end of the segment, need not be the binary64 number nearest to the
\* decimal end_time - 0.1: the value here is the sign of the difference
\* between the two, for the times of SafetLines
\* (4.1 + (30.3 - 4.1 - 0.1) = 30.200000000000003 > 30.2 and
\* 29.9 + (30.2 - 29.9 - 0.1) = 30.099999999999998 < 30.1).
Binary64EndExcess(start_time, end_time) ==
    CASE start_time = 100 /\ end_time = 120 -> 0
      [] start_time = 100 /\ end_time = 105 -> 0
      [] start_time = 100 /\ end_time = 100 -> 0
      [] start_time = 290 /\ end_time = 301 -> 0
      [] start_time = 299 /\ end_time = 302 -> -1
      [] start_time = 41  /\ end_time = 303 -> 1

\* A segment whose duration lacks the guard.
SafetSegmentNoGuard(p, line, counter, wordlist) ==
    LET speaker_id == Zfill(DropLast(line.speaker), ZfillWidth)
    IN [id |-> Uttid(speaker_id, counter),
        recording_id |-> SafetRecordingId(p, line.stem),
        start |-> line.start_time,
        duration |-> line.end_time - line.start_time,
        end_excess |-> Binary64EndExcess(line.start_time, line.end_time),
        channel |-> 0,
        language |-> "English",
        speaker |-> speaker_id,
        text |-> SafetCleaned(p, line.words, wordlist)]

\* start and duration are in tenths of a second; end_excess is the sign of
\* the rounding error of their binary64 sum.
SafetSegment(p, line, counter, wordlist) ==
    LET speaker_id == Zfill(DropLast(line.speaker), ZfillWidth)
    IN [id |-> Uttid(speaker_id, counter),
        recording_id |-> SafetRecordingId(p, line.stem),
        start |-> line.start_time,
        duration |-> line.end_time - line.start_time - Guard,
        end_excess |-> Binary64EndExcess(line.start_time, line.end_time),
        channel |-> 0,
        language |-> "English",
        speaker |-> speaker_id,
        text |-> SafetCleaned(p, line.words, wordlist)]

\* Start of prepare_safet: read_lexicon_words adds the lexicon to WORDLIST.
SafetReadLexicon ==
    /\ recipe = "safet" /\ pc = "start"
    /\ WORDLIST' = WORDLIST \cup Lexicon
    /\ part' = 1
    /\ pc' = "audio"
    /\ UNCHANGED <<split_meeting, splits, fixed, counters, uttids, recipe, corpus, output_dir, error, i, recordings, supervisions,
                   supervision_id, annotation_by_id, validated, written, manifests>>

\* Top of the loop over dataset_parts: fresh lists and counter, the
\* recordings of the part's audio_dir, the glob of its transcripts.
SafetAudio ==
    /\ recipe = "safet" /\ pc = "audio"
    /\ supervisions' = <<>>
    /\ supervision_id' = 0
    /\ i' = 1
    /\ IF ~CheckAndRglobOk(PartAudio)
       THEN /\ recordings' = <<>>
            /\ pc' = "failed" /\ error' = "no_files"
       ELSE IF FromFileRaises(PartAudio)
       THEN /\ recordings' = <<>>
            /\ pc' = "failed" /\ error' = "audio"
       ELSE /\ recordings' = LoadRecordings(PartAudio)
            /\ IF CheckAndRglobOk(PartTrans)
               THEN pc' = "transcripts" /\ error' = error
               ELSE pc' = "failed" /\ error' = "no_files"
    /\ UNCHANGED <<split_meeting, splits, fixed, counters, uttids, recipe, corpus, output_dir, part, WORDLIST, annotation_by_id,
                   validated, written, manifests>>

\* One iteration of `for line in f.readlines()`.
SafetLineStep ==
    /\ recipe = "safet" /\ pc = "transcripts" /\ i <= Len(PartTrans)
    /\ LET line == PartTrans[i] IN
       IF ~line.parses
       THEN /\ pc' = "failed" /\ error' = "parse"
            /\ UNCHANGED <<i, supervisions, supervision_id>>
       ELSE /\ i' = i + 1
            /\ UNCHANGED <<pc, error>>
            /\ IF SafetSkips(DropLast(line.speaker),
                             SafetCleaned(PartName, line.words, WORDLIST))
               THEN UNCHANGED <<supervisions, supervision_id>>
               ELSE /\ supervision_id' = supervision_id + 1
                    /\ supervisions' = Append(supervisions,
                          SafetSegment(PartName, line, supervision_id + 1, WORDLIST))
    /\ UNCHANGED <<split_meeting, splits, fixed, counters, uttids, recipe, corpus, output_dir, part, recordings, WORDLIST,
                   annotation_by_id, validated, written, manifests>>

\* After the transcripts: build the sets and validate them.
SafetValidate ==
    /\ recipe = "safet" /\ pc = "transcripts" /\ i > Len(PartTrans)
    /\ IF ValidateRecordingsAndSupervisions(recordings, supervisions)
       THEN /\ validated' = validated \cup {PartName}
            /\ pc' = "write" /\ error' = error
       ELSE /\ pc' = "failed" /\ error' = "validation"
            /\ UNCHANGED validated
    /\ UNCHANGED <<split_meeting, splits, fixed, counters, uttids, recipe, corpus, output_dir, part, i, recordings, supervisions,
                   supervision_id, WORDLIST, annotation_by_id, written, manifests>>

WriteBoth(p) ==
    IF output_dir
    THEN written \cup {<<p, "supervisions">>, <<p, "recordings">>}
    ELSE written

\* Write the two files, store the part in manifests, go to the next part.
SafetWrite ==
    /\ recipe = "safet" /\ pc = "write"
    /\ written' = WriteBoth(PartName)
    /\ manifests' = Append(manifests, [part |-> PartName,
                                       recordings |-> recordings,
                                       supervisions |-> supervisions])
    /\ IF LastPart
       THEN pc' = "done" /\ part' = part
       ELSE pc' = "audio" /\ part' = part + 1
    /\ UNCHANGED <<split_meeting, splits, fixed, counters, uttids, recipe, corpus, output_dir, error, i, recordings, supervisions,
                   supervision_id, WORDLIST, annotation_by_id, validated>>

(***************************************************************************)
(* CHiME-5 and CHiME-6                                                     *)
(***************************************************************************)
S02 == <<"S","0","2">>
S03 == <<"S","0","3">>
S12 == <<"S","1","2">>
P05 == <<"P","0","5">>
P09 == <<"P","0","9">>
Original == <<"o","r","i","g","i","n","a","l">>
Worn == <<"w","o","r","n">>
U(n) == <<"U", "0", DigitChar(n)>>
CH(n) == <<"C", "H", DigitChar(n)>>
channel_list == <<CH(1), CH(2), CH(3), CH(4)>>

\* Words of the transcripts, as sequences of characters.
WHello == <<"h","e","l","l","o">>
WRedacted == <<"[","r","e","d","a","c","t","e","d","]">>
WDots == <<".",".",".">>

\* hms_to_seconds("h:mm:ss.s"): the three ':'-separated fields <<h, m, s>>,
\* s in tenths of a second.
HmsToSeconds(hms) == hms[1] * 36000 + hms[2] * 600 + hms[3]

\* pattern in word (str.__contains__)
Contains(word, pattern) ==
    \E k \in 0..(Len(word) - Len(pattern)) :
        SubSeq(word, k + 1, k + Len(pattern)) = pattern

\* A test that finds no entry redacted.
NeverRedacted(x) == FALSE

\* '[redacted]' in x['words']; the pattern holds no blank, so it lies in one
\* blank-separated word.
Redacted(x) == \E k \in 1..Len(x.words) : Contains(x.words[k], WRedacted)

MetaChars == {"\"", ".", "?", ",", ":", ";", "!"}

\* c.lower()
Lower(c) == CASE c = "H" -> "h" [] c = "M" -> "m" [] OTHER -> c

RECURSIVE LowerAll(_)
LowerAll(word) ==
    IF word = <<>> THEN <<>> ELSE <<Lower(Head(word))>> \o LowerAll(Tail(word))

\* x['words'] with the meta characters removed, lower-cased and split at
\* blanks: the non-empty words that remain.
RECURSIVE CleanWords(_)
CleanWords(words) ==
    IF words = <<>> THEN <<>>
    ELSE LET w == LowerAll(SelectSeq(Head(words), LAMBDA c: c \notin MetaChars))
         IN IF w = <<>> THEN CleanWords(Tail(words))
            ELSE <<w>> \o CleanWords(Tail(words))

\* A JSON entry of a transcript.  time_form is "dict" when start_time and
\* end_time map microphone types to time strings (CHiME-5 layout: the value
\* is a function over the microphone types the entry has a time for) and
\* "str" when they are time strings (CHiME-6 layout); time_parses is FALSE
\* when a time string is not h:mm:ss; has_words is FALSE when the key
\* 'words' is missing.
ChimeEntry(dir, session, speaker, has_words, words, form, parses, st, en) ==
    [dir |-> dir, session_id |-> session, speaker |-> speaker,
     has_words |-> has_words, words |-> words, time_form |-> form,
     time_parses |-> parses, start_time |-> st, end_time |-> en]

(*************************** CHiME-5 ***************************************)
microphonetype_list5 == <<Worn, U(1), U(2), U(3), U(4), U(5), U(6)>>

\* chime5.get_recording_id_list
RECURSIVE ChannelIds(_, _, _)
ChannelIds(session_id, mictype, channels) ==
    IF channels = <<>> THEN <<>>
    ELSE <<session_id \o <<"_">> \o mictype \o <<".">> \o Head(channels)>>
         \o ChannelIds(session_id, mictype, Tail(channels))

\* A get_recording_id_list that stops after the first channel.
GetRecordingIdListFirstChannel(mictype, session_id, speaker_id) ==
    IF mictype = Original
    THEN <<session_id \o <<"_">> \o speaker_id>>
    ELSE ChannelIds(session_id, mictype, <<Head(channel_list)>>)

GetRecordingIdList5(mictype, session_id, speaker_id) ==
    IF mictype = Original
    THEN <<session_id \o <<"_">> \o speaker_id>>
    ELSE ChannelIds(session_id, mictype, channel_list)

\* The mictype of a microphonetype ('ref' is in no microphonetype_list).
MicType(microphonetype) ==
    IF microphonetype = Worn THEN Original ELSE microphonetype

\* The (mictype, recording_id) pairs the two inner loops visit for an entry.
RECURSIVE WithMic(_, _)
WithMic(mictype, ids) ==
    IF ids = <<>> THEN <<>>
    ELSE <<[mictype |-> mictype, recording_id |-> Head(ids)]>>
         \o WithMic(mictype, Tail(ids))

RECURSIVE Candidates5(_, _)
Candidates5(x, mics) ==
    IF mics = <<>> THEN <<>>
    ELSE WithMic(MicType(Head(mics)),
                 GetRecordingIdList5(MicType(Head(mics)), x.session_id, x.speaker))
         \o Candidates5(x, Tail(mics))

\* chime5.get_supervision_details raises inside its try (and returns Nones):
\* x['start_time'][mictype] on a string or without the key, or a time string
\* that is not h:mm:ss.
DetailsFail5(x, mictype) ==
    \/ x.time_form # "dict"
    \/ mictype \notin DOMAIN x.start_time
    \/ mictype \notin DOMAIN x.end_time
    \/ ~x.time_parses

\* The timestamp test of chime5.prepare_chime: `if end_time < start_time: continue`
TimeSkip5(end_time, start_time) == end_time < start_time

Chime5Segment(x, mictype, recording_id, counter) ==
    [id |-> Uttid(x.speaker \o <<"_">> \o x.session_id, counter),
     recording_id |-> recording_id,
     start |-> HmsToSeconds(x.start_time[mictype]),
     duration |-> HmsToSeconds(x.end_time[mictype])
                  - HmsToSeconds(x.start_time[mictype]),
     channel |-> 0,
     language |-> "English",
     speaker |-> x.speaker,
     text |-> CleanWords(x.words)]

\* `for recording_id in recording_id_list` over all microphone types of one
\* entry: the counter advances for every candidate, kept or not.
RECURSIVE Fan5(_, _, _, _)
Fan5(cands, x, sups, counter) ==
    IF cands = <<>> THEN [supervisions |-> sups, supervision_id |-> counter]
    ELSE LET c == Head(cands)
             n == counter + 1
         IN IF DetailsFail5(x, c.mictype)
               \/ TimeSkip5(HmsToSeconds(x.end_time[c.mictype]),
                            HmsToSeconds(x.start_time[c.mictype]))
            THEN Fan5(Tail(cands), x, sups, n)
            ELSE Fan5(Tail(cands), x,
                      Append(sups,
                             Chime5Segment(x, c.mictype, c.recording_id, n)), n)

Chime5AllIds ==
    <<S02 \o <<"_">> \o P05>>
    \o ChannelIds(S02, U(1), channel_list) \o ChannelIds(S02, U(2), channel_list)
    \o ChannelIds(S02, U(3), channel_list) \o ChannelIds(S02, U(4), channel_list)
    \o ChannelIds(S02, U(5), channel_list) \o ChannelIds(S02, U(6), channel_list)

RECURSIVE AudioFiles(_, _, _)
AudioFiles(dir, ids, duration) ==
    IF ids = <<>> THEN <<>>
    ELSE <<AudioFile(dir, Head(ids), duration, TRUE)>>
         \o AudioFiles(dir, Tail(ids), duration)

\* The audio under audio/dev: nothing, the worn microphone only, the worn
\* microphone and every array channel of session S02, or the worn microphone
\* and a file that cannot be read.
Chime5AudioOptions ==
    { <<>>,
      AudioFiles("dev", <<S02 \o <<"_">> \o P05>>, 300),
      AudioFiles("dev", Chime5AllIds, 300),
      AudioFiles("dev", <<S02 \o <<"_">> \o P05>>, 300)
          \o <<AudioFile("dev", S02 \o <<"_">> \o P09, 0, FALSE)>> }

T(s) == <<0, 0, s>>

\* The microphone types a CHiME-5 entry has times for.
MicTypes5 == {Original, U(1), U(2), U(3), U(4), U(5), U(6)}

\* x['start_time'] or x['end_time'] of a CHiME-5 entry: the time on the worn
\* microphone and the time on the arrays, which run on other clocks.
MicTimes(original, arrays) ==
    [m \in MicTypes5 |-> IF m = Original THEN original ELSE arrays]

Chime5Entries ==
    { ChimeEntry("dev", S02, P05, TRUE, <<WHello>>, "dict", TRUE,
                 MicTimes(T(100), T(101)), MicTimes(T(120), T(123))),
      ChimeEntry("dev", S02, P05, TRUE, <<WHello>>, "dict", TRUE,
                 MicTimes(T(100), T(100)), MicTimes(T(100), T(100))),
      ChimeEntry("dev", S02, P05, TRUE, <<WHello>>, "dict", TRUE,
                 MicTimes(T(120), T(120)), MicTimes(T(100), T(100))),
      ChimeEntry("dev", S02, P05, TRUE, <<WRedacted>>, "dict", TRUE,
                 MicTimes(T(100), T(101)), MicTimes(T(120), T(123))),
      ChimeEntry("dev", S02, P05, TRUE, <<WHello>>, "dict", FALSE,
                 MicTimes(T(0), T(0)), MicTimes(T(0), T(0))),
      ChimeEntry("dev", S02, P05, TRUE, <<WHello>>, "str", TRUE, T(100), T(120)),
      ChimeEntry("dev", S02, P05, FALSE, <<>>, "dict", TRUE,
                 MicTimes(T(100), T(101)), MicTimes(T(120), T(123))),
      ChimeEntry("dev", S02, P05, TRUE, <<WDots>>, "dict", TRUE,
                 MicTimes(T(100), T(101)), MicTimes(T(120), T(123))) }

\* Start of prepare_chime (chime5.py and chime6.py): enter the loop over
\* dataset_parts.
ChimeStart ==
    /\ recipe \in {"chime5", "chime6"} /\ pc = "start"
    /\ part' = 1
    /\ pc' = "audio"
    /\ UNCHANGED <<split_meeting, splits, fixed, counters, uttids, recipe, corpus, output_dir, error, i, recordings, supervisions,
                   supervision_id, WORDLIST, annotation_by_id, validated, written,
                   manifests>>

\* Top of the loop over dataset_parts (chime5.py and chime6.py).
ChimeAudio ==
    /\ recipe \in {"chime5", "chime6"} /\ pc = "audio"
    /\ supervisions' = <<>>
    /\ supervision_id' = 0
    /\ i' = 1
    /\ IF ~CheckAndRglobOk(PartAudio)
       THEN /\ recordings' = <<>>
            /\ pc' = "failed" /\ error' = "no_files"
       ELSE IF FromFileRaises(PartAudio)
       THEN /\ recordings' = <<>>
            /\ pc' = "failed" /\ error' = "audio"
       ELSE /\ recordings' = LoadRecordings(PartAudio)
            /\ IF CheckAndRglobOk(PartTrans)
               THEN pc' = "transcripts" /\ error' = error
               ELSE pc' = "failed" /\ error' = "no_files"
    /\ UNCHANGED <<split_meeting, splits, fixed, counters, uttids, recipe, corpus, output_dir, part, WORDLIST, annotation_by_id,
                   validated, written, manifests>>

\* One iteration of `for x in j` of chime5.prepare_chime.
Chime5Entry ==
    /\ recipe = "chime5" /\ pc = "transcripts" /\ i <= Len(PartTrans)
    /\ LET x == PartTrans[i] IN
       IF ~x.has_words
       THEN /\ pc' = "failed" /\ error' = "parse"
            /\ UNCHANGED <<i, supervisions, supervision_id>>
       ELSE /\ i' = i + 1
            /\ UNCHANGED <<pc, error>>
            /\ IF Redacted(x)
               THEN UNCHANGED <<supervisions, supervision_id>>
               ELSE LET r == Fan5(Candidates5(x, microphonetype_list5), x,
                                  supervisions, supervision_id)
                    IN /\ supervisions' = r.supervisions
                       /\ supervision_id' = r.supervision_id
    /\ UNCHANGED <<split_meeting, splits, fixed, counters, uttids, recipe, corpus, output_dir, part, recordings, WORDLIST,
                   annotation_by_id, validated, written, manifests>>

\* chime5.py lines 114-116
Chime5Validate ==
    /\ recipe = "chime5" /\ pc = "transcripts" /\ i > Len(PartTrans)
    /\ IF ValidateRecordingsAndSupervisions(recordings, supervisions)
       THEN /\ validated' = validated \cup {PartName}
            /\ pc' = "write" /\ error' = error
       ELSE /\ pc' = "failed" /\ error' = "validation"
            /\ UNCHANGED validated
    /\ UNCHANGED <<split_meeting, splits, fixed, counters, uttids, recipe, corpus, output_dir, part, i, recordings, supervisions,
                   supervision_id, WORDLIST, annotation_by_id, written, manifests>>

\* Write the two files and store the part (chime5.py and chime6.py).
ChimeWrite ==
    /\ recipe \in {"chime5", "chime6"} /\ pc = "write"
    /\ written' = WriteBoth(PartName)
    /\ manifests' = Append(manifests, [part |-> PartName,
                                       recordings |-> recordings,
                                       supervisions |-> supervisions])
    /\ IF LastPart
       THEN pc' = "done" /\ part' = part
       ELSE pc' = "audio" /\ part' = part + 1
    /\ UNCHANGED <<split_meeting, splits, fixed, counters, uttids, recipe, corpus, output_dir, error, i, recordings, supervisions,
                   supervision_id, WORDLIST, annotation_by_id, validated>>

(*************************** CHiME-6 ***************************************)
Session2Microphones ==
    << [session |-> <<"S","0","1">>, mics |-> {U(1), U(2), U(4), U(5), U(6)}],
       [session |-> <<"S","0","5">>, mics |-> {U(1), U(2), U(5), U(6)}],
       [session |-> <<"S","0","9">>, mics |-> {U(1), U(2), U(3), U(4), U(6)}],
       [session |-> <<"S","2","2">>, mics |-> {U(1), U(2), U(4), U(5), U(6)}] >>

\* chime6.get_microphonetype_list
GetMicrophonetypeList(dataset_part) ==
    IF dataset_part = "dev" THEN <<Worn>> ELSE <<Worn>>

\* A get_recording_id_list without the test for session S12.
GetRecordingIdListWithS12(mictype, session_id, speaker_id) ==
    IF mictype = Original THEN <<session_id \o <<"_">> \o speaker_id>>
    ELSE IF \E k \in 1..Len(Session2Microphones) :
                /\ Session2Microphones[k].session = session_id
                /\ mictype \notin Session2Microphones[k].mics
         THEN <<>>
         ELSE ChannelIds(session_id, mictype, channel_list)

\* chime6.get_recording_id_list
GetRecordingIdList6(mictype, session_id, speaker_id) ==
    IF session_id = S12 THEN <<>>
    ELSE IF mictype = Original THEN <<session_id \o <<"_">> \o speaker_id>>
    ELSE IF \E k \in 1..Len(Session2Microphones) :
                Session2Microphones[k].session = session_id
         THEN IF \E k \in 1..Len(Session2Microphones) :
                    /\ Session2Microphones[k].session = session_id
                    /\ mictype \in Session2Microphones[k].mics
              THEN ChannelIds(session_id, mictype, channel_list)
              ELSE <<>>
         ELSE ChannelIds(session_id, mictype, channel_list)

RECURSIVE Candidates6(_, _)
Candidates6(x, mics) ==
    IF mics = <<>> THEN <<>>
    ELSE WithMic(MicType(Head(mics)),
                 GetRecordingIdList6(MicType(Head(mics)), x.session_id, x.speaker))
         \o Candidates6(x, Tail(mics))

\* chime6.get_supervision_details raises inside its try; it then returns five
\* Nones, which the caller unpacks into four names: a ValueError.
DetailsFail6(x) == x.time_form # "str" \/ ~x.time_parses

\* `re.sub('[inaudible (\d+)]', '[inaudible]', word)`: the pattern is a
\* character class, so every character of the class is replaced.
InaudibleClass == {"i","n","a","u","d","b","l","e"," ","(",")","+",
                   "0","1","2","3","4","5","6","7","8","9"}
WInaudible == <<"[","i","n","a","u","d","i","b","l","e","]">>
WUnk == <<"<","u","n","k",">">>
WLaughs == <<"[","l","a","u","g","h","s","]">>
WMhm == <<"m","h","m">>
UnkWords == { WInaudible,
              <<"[","l","a","u","g","h","s","]">>,
              <<"[","n","o","i","s","e","]">>,
              <<"m","h","m">>, <<"m","m">>, <<"m","m","m">>, <<"h","m","m">> }

RECURSIVE SubInaudible(_)
SubInaudible(word) ==
    IF word = <<>> THEN <<>>
    ELSE (IF Head(word) \in InaudibleClass THEN WInaudible ELSE <<Head(word)>>)
         \o SubInaudible(Tail(word))

RECURSIVE FilterWords(_)
FilterWords(transcription) ==
    IF transcription = <<>> THEN <<>>
    ELSE LET w1 == SubInaudible(Head(transcription))
             w2 == IF w1 \in UnkWords THEN WUnk ELSE w1
         IN <<w2>> \o FilterWords(Tail(transcription))

Chime6Text(x) == FilterWords(CleanWords(x.words))

\* The timestamp test of chime6.prepare_chime: `if end_time <= start_time: continue`
TimeSkip6(end_time, start_time) == end_time <= start_time

Chime6Segment(x, recording_id, counter, channel) ==
    [id |-> Uttid(x.speaker \o <<"_">> \o x.session_id, counter),
     recording_id |-> recording_id,
     start |-> HmsToSeconds(x.start_time),
     duration |-> HmsToSeconds(x.end_time) - HmsToSeconds(x.start_time),
     channel |-> channel,
     language |-> "English",
     speaker |-> x.speaker,
     text |-> Chime6Text(x)]

\* Mutant: one copy for every part.
Emit6SingleCopy(p, x, recording_id, sups, counter) ==
    [supervisions |-> Append(sups, Chime6Segment(x, recording_id, counter + 1, 0)),
     supervision_id |-> counter + 1]

\* Mutant: the counter advances once for the two channel copies.
Emit6OneCounter(p, x, recording_id, sups, counter) ==
    IF p = "train"
    THEN [supervisions |-> sups \o <<Chime6Segment(x, recording_id, counter + 1, 0),
                                     Chime6Segment(x, recording_id, counter + 1, 1)>>,
          supervision_id |-> counter + 1]
    ELSE [supervisions |-> Append(sups, Chime6Segment(x, recording_id, counter + 1, 0)),
          supervision_id |-> counter + 1]

\* The segments one kept candidate adds: two channel copies for 'train',
\* one for the other parts.
Emit6(p, x, recording_id, sups, counter) ==
    IF p = "train"
    THEN [supervisions |-> sups \o <<Chime6Segment(x, recording_id, counter + 1, 0),
                                     Chime6Segment(x, recording_id, counter + 2, 1)>>,
          supervision_id |-> counter + 2]
    ELSE [supervisions |-> Append(sups, Chime6Segment(x, recording_id, counter + 1, 0)),
          supervision_id |-> counter + 1]

\* A loop over the candidates in which the counter advances for a candidate
\* that the timestamp test drops.
RECURSIVE Fan6CountsDropped(_, _, _, _, _)
Fan6CountsDropped(cands, p, x, sups, counter) ==
    IF cands = <<>> THEN [supervisions |-> sups, supervision_id |-> counter]
    ELSE IF TimeSkip6(HmsToSeconds(x.end_time), HmsToSeconds(x.start_time))
         THEN Fan6CountsDropped(Tail(cands), p, x, sups, counter + 1)
         ELSE LET r == Emit6(p, x, Head(cands).recording_id, sups, counter)
              IN Fan6CountsDropped(Tail(cands), p, x, r.supervisions, r.supervision_id)

\* `for recording_id in recording_id_list` of chime6.prepare_chime.
RECURSIVE Fan6(_, _, _, _, _)
Fan6(cands, p, x, sups, counter) ==
    IF cands = <<>> THEN [supervisions |-> sups, supervision_id |-> counter]
    ELSE IF TimeSkip6(HmsToSeconds(x.end_time), HmsToSeconds(x.start_time))
         THEN Fan6(Tail(cands), p, x, sups, counter)
         ELSE LET r == Emit6(p, x, Head(cands).recording_id, sups, counter)
              IN Fan6(Tail(cands), p, x, r.supervisions, r.supervision_id)

Chime6AudioCandidates ==
    << AudioFile("dev",   S02 \o <<"_">> \o P05, 300, TRUE),
       AudioFile("dev",   S12 \o <<"_">> \o P05, 300, TRUE),
       AudioFile("dev",   S02 \o <<"_">> \o P09, 0,   FALSE),
       AudioFile("train", S03 \o <<"_">> \o P09, 300, TRUE) >>

Chime6Entries ==
    { ChimeEntry("dev", S02, P05, TRUE, <<WHello>>, "str", TRUE, T(100), T(120)),
      ChimeEntry("dev", S02, P05, TRUE, <<WHello>>, "str", TRUE, T(100), T(100)),
      ChimeEntry("dev", S02, P05, TRUE, <<WRedacted>>, "str", TRUE, T(100), T(120)),
      ChimeEntry("dev", S02, P05, TRUE, <<WHello>>, "str", FALSE, T(0), T(0)),
      ChimeEntry("dev", S12, P05, TRUE, <<WHello>>, "str", TRUE, T(100), T(120)),
      ChimeEntry("dev", S02, P05, FALSE, <<>>, "str", TRUE, T(100), T(120)),
      ChimeEntry("dev", S02, P05, TRUE, <<WDots>>, "str", TRUE, T(100), T(120)),
      ChimeEntry("dev", S02, P05, TRUE, <<WLaughs, WMhm>>, "str", TRUE, T(100), T(120)),
      ChimeEntry("train", S03, P09, TRUE, <<WHello>>, "str", TRUE, T(100), T(120)) }

\* One iteration of `for x in j` of chime6.prepare_chime.
Chime6Entry ==
    /\ recipe = "chime6" /\ pc = "transcripts" /\ i <= Len(PartTrans)
    /\ LET x == PartTrans[i]
           cands == Candidates6(x, GetMicrophonetypeList(PartName))
       IN
       IF ~x.has_words \/ (~Redacted(x) /\ cands # <<>> /\ DetailsFail6(x))
       THEN /\ pc' = "failed" /\ error' = "parse"
            /\ UNCHANGED <<i, supervisions, supervision_id>>
       ELSE /\ i' = i + 1
            /\ UNCHANGED <<pc, error>>
            /\ IF Redacted(x)
               THEN UNCHANGED <<supervisions, supervision_id>>
               ELSE LET r == Fan6(cands, PartName, x, supervisions, supervision_id)
                    IN /\ supervisions' = r.supervisions
                       /\ supervision_id' = r.supervision_id
    /\ UNCHANGED <<split_meeting, splits, fixed, counters, uttids, recipe, corpus, output_dir, part, recordings, WORDLIST,
                   annotation_by_id, validated, written, manifests>>

\* The recordings some supervision refers to and the supervisions whose
\* recording is present.
WithoutOrphans(recs, sups) ==
    [recordings |->
        SelectSeq(recs, LAMBDA r : \E k \in 1..Len(sups) : sups[k].recording_id = r.id),
     supervisions |->
        SelectSeq(sups, LAMBDA s : \E k \in 1..Len(recs) : recs[k].id = s.recording_id)]

\* fix_manifests(recordings, supervisions), a library function the recipe
\* does not define: the pair it returns is the pair it was given, when it
\* finds nothing to repair, or the pair without the recordings and
\* supervisions that have no counterpart.
FixManifests(recs, sups) ==
    { [recordings |-> recs, supervisions |-> sups], WithoutOrphans(recs, sups) }

\* chime6.py lines 152-158: validation is run on the output of fix_manifests;
\* its verdict on the repaired sets is either outcome.
Chime6Validate ==
    /\ recipe = "chime6" /\ pc = "transcripts" /\ i > Len(PartTrans)
    /\ fixed' \in FixManifests(recordings, supervisions)
    /\ \E fixed_ok \in BOOLEAN :
          IF fixed_ok
          THEN /\ validated' = validated \cup {PartName}
               /\ pc' = "write" /\ error' = error
          ELSE /\ pc' = "failed" /\ error' = "validation"
               /\ UNCHANGED validated
    /\ UNCHANGED <<split_meeting, splits, counters, uttids, recipe, corpus, output_dir, part, i, recordings, supervisions,
                   supervision_id, WORDLIST, annotation_by_id, written, manifests>>

(***************************************************************************)
(* AMI (ami.py)                                                            *)
(***************************************************************************)
\* PARTITIONS['full-corpus-asr'] of ami.py, element by element ('IN1012''IN1013'
\* in the source is one string literal).
AmiTrain ==
    << "EN2001a", "EN2001b", "EN2001d", "EN2001e", "EN2003a", "EN2004a",
       "EN2005a", "EN2006a", "EN2006b", "EN2009b", "EN2009c", "EN2009d",
       "ES2002a", "ES2002b", "ES2002c", "ES2002d", "ES2003a", "ES2003b",
       "ES2003c", "ES2003d", "ES2005a", "ES2005b", "ES2005c", "ES2005d",
       "ES2006a", "ES2006b", "ES2006c", "ES2006d", "ES2007a", "ES2007b",
       "ES2007c", "ES2007d", "ES2008a", "ES2008b", "ES2008c", "ES2008d",
       "ES2009a", "ES2009b", "ES2009c", "ES2009d", "ES2010a", "ES2010b",
       "ES2010c", "ES2010d", "ES2012a", "ES2012b", "ES2012c", "ES2012d",
       "ES2013a", "ES2013b", "ES2013c", "ES2013d", "ES2014a", "ES2014b",
       "ES2014c", "ES2014d", "ES2015a", "ES2015b", "ES2015c", "ES2015d",
       "ES2016a", "ES2016b", "ES2016c", "ES2016d", "IB4005", "IN1001",
       "IN1002", "IN1005", "IN1007", "IN1008", "IN1009", "IN1012IN1013",
       "IN1014", "IN1016", "IS1000a", "IS1000b", "IS1000c", "IS1000d",
       "IS1001a", "IS1001b", "IS1001c", "IS1001d", "IS1002b", "IS1002c",
       "IS1002d", "IS1003a", "IS1003b", "IS1003c", "IS1003d", "IS1004a",
       "IS1004b", "IS1004c", "IS1004d", "IS1005a", "IS1005b", "IS1005c",
       "IS1006a", "IS1006b", "IS1006c", "IS1006d", "IS1007a", "IS1007b",
       "IS1007c", "IS1007d", "TS3005a", "TS3005b", "TS3005c", "TS3005d",
       "TS3006a", "TS3006b", "TS3006c", "TS3006d", "TS3007a", "TS3007b",
       "TS3007c", "TS3007d", "TS3008a", "TS3008b", "TS3008c", "TS3008d",
       "TS3009a", "TS3009b", "TS3009c", "TS3009d", "TS3010a", "TS3010b",
       "TS3010c", "TS3010d", "TS3011a", "TS3011b", "TS3011c", "TS3011d",
       "TS3012a", "TS3012b", "TS3012c", "TS3012d" >>

AmiDev ==
    << "ES2011a", "ES2011b", "ES2011c", "ES2011d", "IB4001", "IB4002",
       "IB4003", "IB4004", "IB4010", "IB4011", "IS1008a", "IS1008b", "IS1008c",
       "IS1008d", "TS3004a", "TS3004b", "TS3004c", "TS3004d" >>

AmiTest ==
    << "EN2002a", "EN2002b", "EN2002c", "EN2002d", "ES2004a", "ES2004b",
       "ES2004c", "ES2004d", "IS1009a", "IS1009b", "IS1009c", "IS1009d",
       "TS3003a", "TS3003b", "TS3003c", "TS3003d" >>

\* Mutant: a train meeting is listed in dev as well.
PartitionsWithSharedMeeting(p) ==
    CASE p = "train" -> AmiTrain
      [] p = "dev" -> <<"ES2002a">> \o AmiDev
      [] p = "test" -> AmiTest

PARTITIONS(p) ==
    CASE p = "train" -> AmiTrain [] p = "dev" -> AmiDev [] p = "test" -> AmiTest

\* x in list
InList(x, list) == \E k \in 1..Len(list) : list[k] = x

\* An id of the AMI recipe is the sequence of its '.'-separated fields, so
\* id.split('.')[0] is its first element.
MeetingOf(id) == Head(id)

FEE005 == <<"F","E","E","0","0","5">>
MEE006 == <<"M","E","E","0","0","6">>

\* Lines "<meetingID> <channel> <spkr> <start> <end> <transcript>" of the
\* annotation file; parses is FALSE for a line with fewer than five fields
\* or a time float() rejects.
AmiLine(parses, meeting, spk, st, en, text) ==
    [dir |-> "ami", parses |-> parses, meeting_id |-> meeting, spk |-> spk,
     st_time |-> st, end_time |-> en, text |-> text]

AmiLines ==
    { AmiLine(TRUE, "ES2002a", FEE005, 100, 120, <<"hello">>),
      AmiLine(TRUE, "ES2002a", FEE005, 299, 302, <<"hello">>),
      AmiLine(TRUE, "ES2002a", FEE005, 100, 100, <<"hello">>),
      AmiLine(TRUE, "ES2002a", FEE005, -10, 20, <<"hello">>),
      AmiLine(TRUE, "ES2011a", MEE006, 100, 120, <<"hello">>),
      AmiLine(TRUE, "ES2002a", MEE006, 130, 150, <<"hello">>),
      AmiLine(FALSE, "", <<>>, 0, 0, <<>>) }

AmiAudioCandidates ==
    << AudioFile("ami", <<"ES2002a", "Array1-01">>, 300, TRUE),
       AudioFile("ami", <<"ES2011a", "Array1-01">>, 300, TRUE),
       AudioFile("ami", <<"EN2002a", "Array1-01">>, 300, TRUE),
       AudioFile("ami", <<"IN1012", "Array1-01">>, 300, TRUE),
       AudioFile("ami", <<"ES2002b", "Array1-01">>, 0, FALSE) >>

AmiSegmentAnnotation(line) ==
    [text |-> line.text, speaker |-> line.spk, gender |-> Head(line.spk),
     begin_time |-> line.st_time, end_time |-> line.end_time]

\* annotations of parse_ami_annotations: the keys (meeting_id, spk) in the
\* order of their first line, each with the list of its annotations.
RECURSIVE AddAnnotation(_, _, _)
AddAnnotation(annotations, key, a) ==
    IF annotations = <<>> THEN <<[key |-> key, list |-> <<a>>]>>
    ELSE IF Head(annotations).key = key
         THEN <<[key |-> key, list |-> Append(Head(annotations).list, a)]>>
              \o Tail(annotations)
         ELSE <<Head(annotations)>> \o AddAnnotation(Tail(annotations), key, a)

RECURSIVE ParseAmiAnnotations(_, _)
ParseAmiAnnotations(lines, annotations) ==
    IF lines = <<>> THEN annotations
    ELSE ParseAmiAnnotations(Tail(lines),
            AddAnnotation(annotations,
                          <<Head(lines).meeting_id, Head(lines).spk>>,
                          AmiSegmentAnnotation(Head(lines))))

\* {key[0]: annot for key, annot in annotations.items()}: a later key of the
\* same meeting replaces an earlier one.
RECURSIVE AnnotationById(_, _)
AnnotationById(annotations, by_id) ==
    IF annotations = <<>> THEN by_id
    ELSE LET m == Head(annotations).key[1]
         IN AnnotationById(Tail(annotations),
               [k \in DOMAIN by_id \cup {m} |->
                   IF k = m THEN Head(annotations).list ELSE by_id[k]])

\* The file read into lines: read().strip().split("\n") of an empty file is
\* [''], whose parts[0] raises.
AmiFileParses(lines) ==
    /\ Len(lines) > 0
    /\ \A k \in 1..Len(lines) : lines[k].parses

\* The two tests of the segment loop of ami.prepare_ami.
AmiExceeds(seg_info, recording) == seg_info.end_time > recording.duration
AmiKeeps(seg_info) == seg_info.end_time - seg_info.begin_time > 0

\* f"{recording.id}-{seg_idx}"
AmiSegmentId(id, seg_idx) ==
    [id EXCEPT ![Len(id)] = @ \o "-" \o ToString(seg_idx)]

AmiSegment(recording, seg_idx, seg_info) ==
    [id |-> AmiSegmentId(recording.id, seg_idx),
     recording_id |-> recording.id,
     start |-> seg_info.begin_time,
     duration |-> seg_info.end_time - seg_info.begin_time,
     channel |-> 0,
     language |-> "English",
     speaker |-> seg_info.speaker,
     gender |-> seg_info.gender,
     text |-> seg_info.text]

\* `for seg_idx, seg_info in enumerate(annotation)` for one recording
RECURSIVE AmiSegments(_, _, _, _)
AmiSegments(recording, annotation, seg_idx, segments) ==
    IF seg_idx >= Len(annotation) THEN segments
    ELSE LET seg_info == annotation[seg_idx + 1]
         IN IF AmiExceeds(seg_info, recording) \/ ~AmiKeeps(seg_info)
            THEN AmiSegments(recording, annotation, seg_idx + 1, segments)
            ELSE AmiSegments(recording, annotation, seg_idx + 1,
                             Append(segments, AmiSegment(recording, seg_idx, seg_info)))

\* Mutant: the recordings are filtered by the last field of the id.
RecordingPartByLastField(recording_set, p) ==
    Filter(recording_set, LAMBDA x: InList(x.id[Len(x.id)], PARTITIONS(p)))

\* The split of a collection: filter(lambda x: x.id.split('.')[0] in dataset_parts[part])
RecordingPart(recording_set, p) ==
    Filter(recording_set, LAMBDA x: InList(MeetingOf(x.id), PARTITIONS(p)))

SupervisionPart(supervision_set, p) ==
    Filter(supervision_set, LAMBDA x: InList(MeetingOf(x.recording_id), PARTITIONS(p)))

\* ami.py lines 90-112: the assertion on data_dir, then parse the annotations,
\* then load every recording.
AmiParse ==
    /\ recipe = "ami" /\ pc = "start"
    /\ IF ~corpus.is_dir
       THEN /\ pc' = "failed" /\ error' = "AssertionError"
            /\ UNCHANGED <<annotation_by_id, recordings>>
       ELSE IF ~AmiFileParses(corpus.trans)
       THEN /\ pc' = "failed" /\ error' = "parse"
            /\ UNCHANGED <<annotation_by_id, recordings>>
       ELSE IF FromFileRaises(corpus.audio)
       THEN /\ pc' = "failed" /\ error' = "audio"
            /\ UNCHANGED <<annotation_by_id, recordings>>
       ELSE /\ annotation_by_id' =
                  AnnotationById(ParseAmiAnnotations(corpus.trans, <<>>), <<>>)
            /\ recordings' = LoadRecordings(corpus.audio)
            /\ pc' = "segments" /\ error' = error
    /\ i' = 1
    /\ UNCHANGED <<split_meeting, splits, fixed, counters, uttids, recipe, corpus, output_dir, part, supervisions, supervision_id,
                   WORDLIST, validated, written, manifests>>

\* One iteration of `for recording in recording_set`.
AmiRecording ==
    /\ recipe = "ami" /\ pc = "segments" /\ i <= Len(recordings)
    /\ LET recording == recordings[i]
           meetingid == MeetingOf(recording.id)
       IN IF meetingid \notin DOMAIN annotation_by_id
          THEN UNCHANGED supervisions
          ELSE supervisions' = AmiSegments(recording, annotation_by_id[meetingid],
                                           0, supervisions)
    /\ i' = i + 1
    /\ UNCHANGED <<split_meeting, splits, fixed, counters, uttids, recipe, corpus, output_dir, pc, error, part, recordings,
                   supervision_id, WORDLIST, annotation_by_id, validated, written,
                   manifests>>

\* ami.py lines 153-156: validation of the whole corpus.
AmiValidate ==
    /\ recipe = "ami" /\ pc = "segments" /\ i > Len(recordings)
    /\ IF ValidateRecordingsAndSupervisions(recordings, supervisions)
       THEN pc' = "write" /\ error' = error /\ part' = 1
       ELSE pc' = "failed" /\ error' = "validation" /\ part' = part
    /\ UNCHANGED <<split_meeting, splits, fixed, counters, uttids, recipe, corpus, output_dir, i, recordings, supervisions,
                   supervision_id, WORDLIST, annotation_by_id, validated, written,
                   manifests>>

\* ami.py lines 157-167: filter the split and write its two files.
AmiWritePart ==
    /\ recipe = "ami" /\ pc = "write"
    /\ written' = IF output_dir
                  THEN written \cup {<<PartName, "recordings">>,
                                     <<PartName, "supervisions">>}
                  ELSE written
    /\ pc' = "validate_part"
    /\ UNCHANGED <<split_meeting, splits, fixed, counters, uttids, recipe, corpus, output_dir, error, part, i, recordings,
                   supervisions, supervision_id, WORDLIST, annotation_by_id,
                   validated, manifests>>

\* ami.py lines 168-171: validate the split, store it, go to the next split.
AmiValidatePart ==
    /\ recipe = "ami" /\ pc = "validate_part"
    /\ LET recording_part == RecordingPart(recordings, PartName)
           supervision_part == SupervisionPart(supervisions, PartName)
       IN IF ValidateRecordingsAndSupervisions(recording_part, supervision_part)
          THEN /\ validated' = validated \cup {PartName}
               /\ manifests' = Append(manifests, [part |-> PartName,
                                                  recordings |-> recording_part,
                                                  supervisions |-> supervision_part])
               /\ error' = error
               /\ IF LastPart
                  THEN pc' = "done" /\ part' = part
                  ELSE pc' = "write" /\ part' = part + 1
          ELSE /\ pc' = "failed" /\ error' = "validation"
               /\ UNCHANGED <<validated, manifests, part>>
    /\ UNCHANGED <<split_meeting, splits, fixed, counters, uttids, recipe, corpus, output_dir, i, recordings, supervisions,
                   supervision_id, WORDLIST, annotation_by_id, written>>

(*************************** ami2.py ***************************************)
\* MEETINGS of ami2.py: the meetings of every session, in source order.
MEETINGS ==
    << [session |-> "EN2001", meetings |-> <<"EN2001a", "EN2001b", "EN2001d", "EN2001e">>],
       [session |-> "EN2002", meetings |-> <<"EN2002a", "EN2002b", "EN2002c", "EN2002d">>],
       [session |-> "EN2003", meetings |-> <<"EN2003a">>],
       [session |-> "EN2004", meetings |-> <<"EN2004a">>],
       [session |-> "EN2005", meetings |-> <<"EN2005a">>],
       [session |-> "EN2006", meetings |-> <<"EN2006a", "EN2006b">>],
       [session |-> "EN2009", meetings |-> <<"EN2009b", "EN2009c", "EN2009d">>],
       [session |-> "ES2002", meetings |-> <<"ES2002a", "ES2002b", "ES2002c", "ES2002d">>],
       [session |-> "ES2003", meetings |-> <<"ES2003a", "ES2003b", "ES2003c", "ES2003d">>],
       [session |-> "ES2004", meetings |-> <<"ES2004a", "ES2004b", "ES2004c", "ES2004d">>],
       [session |-> "ES2005", meetings |-> <<"ES2005a", "ES2005b", "ES2005c", "ES2005d">>],
       [session |-> "ES2006", meetings |-> <<"ES2006a", "ES2006b", "ES2006c", "ES2006d">>],
       [session |-> "ES2007", meetings |-> <<"ES2007a", "ES2007b", "ES2007c", "ES2007d">>],
       [session |-> "ES2008", meetings |-> <<"ES2008a", "ES2008b", "ES2008c", "ES2008d">>],
       [session |-> "ES2009", meetings |-> <<"ES2009a", "ES2009b", "ES2009c", "ES2009d">>],
       [session |-> "ES2010", meetings |-> <<"ES2010a", "ES2010b", "ES2010c", "ES2010d">>],
       [session |-> "ES2011", meetings |-> <<"ES2011a", "ES2011b", "ES2011c", "ES2011d">>],
       [session |-> "ES2012", meetings |-> <<"ES2012a", "ES2012b", "ES2012c", "ES2012d">>],
       [session |-> "ES2013", meetings |-> <<"ES2013a", "ES2013b", "ES2013c", "ES2013d">>],
       [session |-> "ES2014", meetings |-> <<"ES2014a", "ES2014b", "ES2014c", "ES2014d">>],
       [session |-> "ES2015", meetings |-> <<"ES2015a", "ES2015b", "ES2015c", "ES2015d">>],
       [session |-> "ES2016", meetings |-> <<"ES2016a", "ES2016b", "ES2016c", "ES2016d">>],
       [session |-> "IB4001", meetings |-> <<"IB4001">>],
       [session |-> "IB4002", meetings |-> <<"IB4002">>],
       [session |-> "IB4003", meetings |-> <<"IB4003">>],
       [session |-> "IB4004", meetings |-> <<"IB4004">>],
       [session |-> "IB4005", meetings |-> <<"IB4005">>],
       [session |-> "IB4010", meetings |-> <<"IB4010">>],
       [session |-> "IB4011", meetings |-> <<"IB4011">>],
       [session |-> "IN1001", meetings |-> <<"IN1001">>],
       [session |-> "IN1002", meetings |-> <<"IN1002">>],
       [session |-> "IN1005", meetings |-> <<"IN1005">>],
       [session |-> "IN1007", meetings |-> <<"IN1007">>],
       [session |-> "IN1008", meetings |-> <<"IN1008">>],
       [session |-> "IN1009", meetings |-> <<"IN1009">>],
       [session |-> "IN1012", meetings |-> <<"IN1012">>],
       [session |-> "IN1013", meetings |-> <<"IN1013">>],
       [session |-> "IN1014", meetings |-> <<"IN1014">>],
       [session |-> "IN1016", meetings |-> <<"IN1016">>],
       [session |-> "IS1000", meetings |-> <<"IS1000a", "IS1000b", "IS1000c", "IS1000d">>],
       [session |-> "IS1001", meetings |-> <<"IS1001a", "IS1001b", "IS1001c", "IS1001d">>],
       [session |-> "IS1002", meetings |-> <<"IS1002b", "IS1002c", "IS1002d">>],
       [session |-> "IS1003", meetings |-> <<"IS1003a", "IS1003b", "IS1003c", "IS1003d">>],
       [session |-> "IS1004", meetings |-> <<"IS1004a", "IS1004b", "IS1004c", "IS1004d">>],
       [session |-> "IS1005", meetings |-> <<"IS1005a", "IS1005b", "IS1005c">>],
       [session |-> "IS1006", meetings |-> <<"IS1006a", "IS1006b", "IS1006c", "IS1006d">>],
       [session |-> "IS1007", meetings |-> <<"IS1007a", "IS1007b", "IS1007c", "IS1007d">>],
       [session |-> "IS1008", meetings |-> <<"IS1008a", "IS1008b", "IS1008c", "IS1008d">>],
       [session |-> "IS1009", meetings |-> <<"IS1009a", "IS1009b", "IS1009c", "IS1009d">>],
       [session |-> "TS3003", meetings |-> <<"TS3003a", "TS3003b", "TS3003c", "TS3003d">>],
       [session |-> "TS3004", meetings |-> <<"TS3004a", "TS3004b", "TS3004c", "TS3004d">>],
       [session |-> "TS3005", meetings |-> <<"TS3005a", "TS3005b", "TS3005c", "TS3005d">>],
       [session |-> "TS3006", meetings |-> <<"TS3006a", "TS3006b", "TS3006c", "TS3006d">>],
       [session |-> "TS3007", meetings |-> <<"TS3007a", "TS3007b", "TS3007c", "TS3007d">>],
       [session |-> "TS3008", meetings |-> <<"TS3008a", "TS3008b", "TS3008c", "TS3008d">>],
       [session |-> "TS3009", meetings |-> <<"TS3009a", "TS3009b", "TS3009c", "TS3009d">>],
       [session |-> "TS3010", meetings |-> <<"TS3010a", "TS3010b", "TS3010c", "TS3010d">>],
       [session |-> "TS3011", meetings |-> <<"TS3011a", "TS3011b", "TS3011c", "TS3011d">>],
       [session |-> "TS3012", meetings |-> <<"TS3012a", "TS3012b", "TS3012c", "TS3012d">>] >>

Ami2TrainSessions ==
    << "ES2002", "ES2005", "ES2006", "ES2007", "ES2008", "ES2009",
       "ES2010", "ES2012", "ES2013", "ES2015", "ES2016", "IS1000",
       "IS1001", "IS1002", "IS1003", "IS1004", "IS1005", "IS1006",
       "IS1007", "TS3005", "TS3008", "TS3009", "TS3010", "TS3011",
       "TS3012", "EN2001", "EN2003", "EN2004", "EN2005", "EN2006",
       "EN2009", "IN1001", "IN1002", "IN1005", "IN1007", "IN1008",
       "IN1009", "IN1012", "IN1013", "IN1014", "IN1016", "ES2014",
       "TS3007", "ES2003", "TS3006" >>

Ami2DevSessions ==
    << "ES2011", "IS1008", "TS3004", "IB4001", "IB4002", "IB4003",
       "IB4004", "IB4010", "IB4011" >>

Ami2TestSessions ==
    << "ES2004", "IS1009", "TS3003", "EN2002" >>

\* MEETINGS[session]
MeetingsOfSession(session) ==
    LET k == CHOOSE n \in 1..Len(MEETINGS) : MEETINGS[n].session = session
    IN MEETINGS[k].meetings

\* [meeting for session in sessions for meeting in MEETINGS[session]]
RECURSIVE MeetingsOfSessions(_)
MeetingsOfSessions(sessions) ==
    IF sessions = <<>> THEN <<>>
    ELSE MeetingsOfSession(Head(sessions)) \o MeetingsOfSessions(Tail(sessions))

\* PARTITIONS['full-corpus-asr'] of ami2.py
Ami2Partitions(p) ==
    CASE p = "train" -> MeetingsOfSessions(Ami2TrainSessions)
      [] p = "dev" -> MeetingsOfSessions(Ami2DevSessions)
      [] p = "test" -> MeetingsOfSessions(Ami2TestSessions)

\* Tab-separated annotation lines "<meetingID> <skip> <spkr> <channel> <skip>
\* <skip> <start time> <end time> <transcripts> <partial end times>"; parses
\* is FALSE for a line with fewer than ten fields or a time float() rejects.
Ami2Line(parses, meeting, spkr, st, en) ==
    [dir |-> "ami2", parses |-> parses, meeting_id |-> meeting, spkr |-> spkr,
     st_time |-> st, end_time |-> en]

Ami2Lines ==
    { Ami2Line(TRUE, "ES2002a", FEE005, 0, 5),
      Ami2Line(TRUE, "ES2002a", FEE005, 6, 10),
      Ami2Line(TRUE, "ES2002a", FEE005, 20, 25),
      Ami2Line(TRUE, "ES2002a", MEE006, 6, 10),
      Ami2Line(FALSE, "", <<>>, 0, 0) }

\* The values of the argument max_pause (tenths of a second).
Ami2MaxPauses == {0, 2}

\* A value a Python function returns: None, or a value.
None == <<>>
Some(v) == <<v>>

\* ami2.parse_ami_annotations: the loop over the lines only counts the
\* sentences of the transcripts, max_pause is not used, and the body ends
\* without a return statement.
Ami2ParseAmiAnnotations(lines, max_pause) == None

\* ami2.py lines 268-284: the assertion on data_dir; parse_ami_annotations
\* raises on a line it cannot parse; the comprehension over its result, None,
\* raises a TypeError.
Ami2Parse ==
    /\ recipe = "ami2" /\ pc = "start"
    /\ pc' = "failed"
    /\ IF ~corpus.is_dir
       THEN error' = "AssertionError" /\ UNCHANGED annotation_by_id
       ELSE IF \E k \in 1..Len(corpus.trans) : ~corpus.trans[k].parses
       THEN error' = "parse" /\ UNCHANGED annotation_by_id
       ELSE LET annotations == Ami2ParseAmiAnnotations(corpus.trans, corpus.max_pause)
            IN /\ annotation_by_id' = annotations
               /\ error' = IF annotations = None THEN "TypeError" ELSE error
    /\ UNCHANGED <<split_meeting, splits, fixed, counters, uttids, recipe, corpus, output_dir, part, i, recordings, supervisions,
                   supervision_id, WORDLIST, validated, written, manifests>>

(***************************************************************************)
(* Russian Open STT                                                        *)
(***************************************************************************)
RuDuration == 50    \* duration=5 (seconds)

StemC == <<"c">>
StemZ == <<"z">>

RuAudioCandidates ==
    << AudioFile("val",   StemA, 30, TRUE),
       AudioFile("val",   StemB, 60, TRUE),
       AudioFile("val",   StemZ, 0,  FALSE),
       AudioFile("train", StemC, 60, TRUE) >>

\* A .txt transcript file: its stem and its lines.
RuTranscripts ==
    { [dir |-> "val",   stem |-> StemA, lines |-> <<"privet">>],
      [dir |-> "val",   stem |-> StemB, lines |-> <<"privet">>],
      [dir |-> "val",   stem |-> StemZ, lines |-> <<"privet">>],
      [dir |-> "val",   stem |-> StemA, lines |-> <<>>],
      [dir |-> "train", stem |-> StemC, lines |-> <<"privet">>] }

RuSegment(t) ==
    [id |-> t.stem,
     recording_id |-> t.stem,
     start |-> 0,
     duration |-> RuDuration,
     channel |-> 0,
     language |-> "Russian",
     text |-> t.lines[1]]

\* Start of prepare_ru_open_stt: the lists and the counter are created once,
\* before the loop over the parts.
RuStart ==
    /\ recipe = "ru_open_stt" /\ pc = "start"
    /\ recordings' = <<>>
    /\ supervisions' = <<>>
    /\ supervision_id' = 0
    /\ part' = 1
    /\ pc' = "audio"
    /\ UNCHANGED <<split_meeting, splits, fixed, counters, uttids, recipe, corpus, output_dir, error, i, WORDLIST, annotation_by_id,
                   validated, written, manifests>>

\* Mutant: the audio is globbed without the check for an empty result.
RuAudioUnchecked ==
    /\ recipe = "ru_open_stt" /\ pc = "audio"
    /\ i' = 1
    /\ IF FromFileRaises(PartAudio)
       THEN /\ pc' = "failed" /\ error' = "audio"
            /\ UNCHANGED recordings
       ELSE /\ recordings' = recordings \o LoadRecordings(PartAudio)
            /\ pc' = "transcripts" /\ error' = error
    /\ UNCHANGED <<split_meeting, splits, fixed, counters, uttids, recipe, corpus, output_dir, part, supervisions, supervision_id,
                   WORDLIST, annotation_by_id, validated, written, manifests>>

\* ru_open_stt.py lines 33-46: the audio of the part is added to recordings.
RuAudio ==
    /\ recipe = "ru_open_stt" /\ pc = "audio"
    /\ i' = 1
    /\ IF ~CheckAndRglobOk(PartAudio)
       THEN /\ pc' = "failed" /\ error' = "no_files"
            /\ UNCHANGED recordings
       ELSE IF FromFileRaises(PartAudio)
       THEN /\ pc' = "failed" /\ error' = "audio"
            /\ UNCHANGED recordings
       ELSE /\ recordings' = recordings \o LoadRecordings(PartAudio)
            /\ IF CheckAndRglobOk(PartTrans)
               THEN pc' = "transcripts" /\ error' = error
               ELSE pc' = "failed" /\ error' = "no_files"
    /\ UNCHANGED <<split_meeting, splits, fixed, counters, uttids, recipe, corpus, output_dir, part, supervisions, supervision_id,
                   WORDLIST, annotation_by_id, validated, written, manifests>>

\* One iteration of `for transcript_path in transcript_paths`.
RuTranscript ==
    /\ recipe = "ru_open_stt" /\ pc = "transcripts" /\ i <= Len(PartTrans)
    /\ LET t == PartTrans[i] IN
       IF t.lines = <<>>
       THEN /\ pc' = "failed" /\ error' = "parse"
            /\ UNCHANGED <<i, supervisions, supervision_id>>
       ELSE /\ i' = i + 1
            /\ supervision_id' = supervision_id + 1
            /\ supervisions' = Append(supervisions, RuSegment(t))
            /\ UNCHANGED <<pc, error>>
    /\ UNCHANGED <<split_meeting, splits, fixed, counters, uttids, recipe, corpus, output_dir, part, recordings, WORDLIST,
                   annotation_by_id, validated, written, manifests>>

\* ru_open_stt.py lines 69-78: no validation; write and store the part.
RuWrite ==
    /\ recipe = "ru_open_stt" /\ pc = "transcripts" /\ i > Len(PartTrans)
    /\ written' = WriteBoth(PartName)
    /\ manifests' = Append(manifests, [part |-> PartName,
                                       recordings |-> recordings,
                                       supervisions |-> supervisions])
    /\ IF LastPart
       THEN pc' = "done" /\ part' = part
       ELSE pc' = "audio" /\ part' = part + 1
    /\ UNCHANGED <<split_meeting, splits, fixed, counters, uttids, recipe, corpus, output_dir, error, i, recordings, supervisions,
                   supervision_id, WORDLIST, annotation_by_id, validated>>

(***************************************************************************)
(* The corpora and the specification                                       *)
(***************************************************************************)
\* The audio a directory with the candidate files may hold: any of the
\* readable ones, or all of them, the unreadable one included.
ReadableOrAll(candidates) ==
    SubSeqs(SelectSeq(candidates, LAMBDA f: f.readable)) \cup {candidates}

\* The audio a corpus directory may hold.
AudioOptions(rcp) ==
    CASE rcp = "safet" -> ReadableOrAll(SafetAudioCandidates)
      [] rcp = "chime5" -> Chime5AudioOptions
      [] rcp = "chime6" -> ReadableOrAll(Chime6AudioCandidates)
      [] rcp = "ru_open_stt" -> ReadableOrAll(RuAudioCandidates)
      [] rcp = "ami" -> ReadableOrAll(AmiAudioCandidates)
      [] rcp = "ami2" -> {<<>>}

\* The transcript records a corpus may hold.
Lines(rcp) ==
    CASE rcp = "safet" -> SafetLines
      [] rcp = "chime5" -> Chime5Entries
      [] rcp = "chime6" -> Chime6Entries
      [] rcp = "ru_open_stt" -> RuTranscripts
      [] rcp = "ami" -> AmiLines
      [] rcp = "ami2" -> Ami2Lines

\* A corpus directory that exists holds some of the audio and some transcript
\* records; one that does not exist holds nothing.
Corpora(rcp) ==
    IF rcp = "ami2"
    THEN [is_dir : {TRUE}, audio : AudioOptions(rcp),
          trans : BoundedSeq(Lines(rcp), MaxLines), max_pause : Ami2MaxPauses]
         \cup {[is_dir |-> FALSE, audio |-> <<>>, trans |-> <<>>, max_pause |-> 0]}
    ELSE [is_dir : {TRUE}, audio : AudioOptions(rcp),
          trans : BoundedSeq(Lines(rcp), MaxLines)]
         \cup {[is_dir |-> FALSE, audio |-> <<>>, trans |-> <<>>]}

\* WORDLIST is a module global of safet.py: when prepare_safet is called it
\* holds the lexicon words of the earlier prepare_safet calls of the process.
EarlierWordlists(rcp) == IF rcp = "safet" THEN {{}, {"ZZZ"}} ELSE {{}}

Init ==
    /\ recipe \in Recipes
    /\ corpus \in Corpora(recipe)
    /\ output_dir \in BOOLEAN
    /\ pc = "start"
    /\ error = "none"
    /\ part = 0
    /\ i = 1
    /\ recordings = <<>>
    /\ supervisions = <<>>
    /\ supervision_id = 0
    /\ WORDLIST \in EarlierWordlists(recipe)
    /\ annotation_by_id = <<>>
    /\ validated = {}
    /\ fixed = [recordings |-> <<>>, supervisions |-> <<>>]
    /\ split_meeting = ""
    /\ splits = [ami |-> <<>>, ami2 |-> <<>>]
    /\ written = {}
    /\ manifests = <<>>
    /\ counters = <<0, 0>>
    /\ uttids = <<>>

Next ==
    \/ SafetReadLexicon
    \/ SafetAudio
    \/ SafetLineStep
    \/ SafetValidate
    \/ SafetWrite
    \/ ChimeStart
    \/ ChimeAudio
    \/ Chime5Entry
    \/ Chime5Validate
    \/ Chime6Entry
    \/ Chime6Validate
    \/ ChimeWrite
    \/ AmiParse
    \/ AmiRecording
    \/ AmiValidate
    \/ AmiWritePart
    \/ AmiValidatePart
    \/ Ami2Parse
    \/ RuStart
    \/ RuAudio
    \/ RuTranscript
    \/ RuWrite

Spec == Init /\ [][Next]_vars

(***************************************************************************)
(* The generation of supervision ids, applied to two values of the         *)
(* sequence counter of one partition                                       *)
(***************************************************************************)
\* Values the counter takes in a partition with that many records.
CounterValues == {1, 2, 9, 10, 11, 99, 100, 999, 1000, 99999, 100000,
                  999998, 999999, 1000000, 1000001}

\* The part of the id before the counter: the zero-filled speaker in
\* prepare_safet, speaker and session in prepare_chime.
UttidPrefix(rcp) ==
    IF rcp = "safet" THEN Zfill(DropLast(Spk1Field), ZfillWidth)
    ELSE P05 \o <<"_">> \o S02

InitUttids ==
    /\ recipe \in {"safet", "chime5", "chime6"}
    /\ corpus = [is_dir |-> FALSE, audio |-> <<>>, trans |-> <<>>]
    /\ output_dir = FALSE
    /\ pc = "uttid"
    /\ error = "none"
    /\ part = 1
    /\ i = 1
    /\ recordings = <<>>
    /\ supervisions = <<>>
    /\ supervision_id = 0
    /\ WORDLIST = {}
    /\ annotation_by_id = <<>>
    /\ validated = {}
    /\ fixed = [recordings |-> <<>>, supervisions |-> <<>>]
    /\ split_meeting = ""
    /\ splits = [ami |-> <<>>, ami2 |-> <<>>]
    /\ written = {}
    /\ manifests = <<>>
    /\ counters \in CounterValues \X CounterValues
    /\ uttids = <<>>

\* The id of the segment with the first counter value.
MakeFirstUttid ==
    /\ pc = "uttid" /\ uttids = <<>>
    /\ uttids' = <<Uttid(UttidPrefix(recipe), counters[1])>>
    /\ UNCHANGED <<recipe, corpus, output_dir, pc, error, part, i, recordings,
                   supervisions, supervision_id, WORDLIST, annotation_by_id,
                   validated, fixed, written, manifests, counters,
                   split_meeting, splits>>

\* The id of the segment with the second counter value.
MakeSecondUttid ==
    /\ pc = "uttid" /\ Len(uttids) = 1
    /\ uttids' = Append(uttids, Uttid(UttidPrefix(recipe), counters[2]))
    /\ UNCHANGED <<recipe, corpus, output_dir, pc, error, part, i, recordings,
                   supervisions, supervision_id, WORDLIST, annotation_by_id,
                   validated, fixed, written, manifests, counters,
                   split_meeting, splits>>

NextUttids == MakeFirstUttid \/ MakeSecondUttid

SpecUttids == InitUttids /\ [][NextUttids]_vars

(***************************************************************************)
(* The split of a meeting in the tables of ami.py and ami2.py: the test     *)
(* `x.id.split('.')[0] in dataset_parts[part]` for part in train, dev, test *)
(***************************************************************************)
\* Every meeting of MEETINGS and every element of a list of either table.
AllMeetings ==
    UNION {Range(MEETINGS[k].meetings) : k \in 1..Len(MEETINGS)}
    \cup UNION {Range(PARTITIONS(p)) \cup Range(Ami2Partitions(p)) :
                    p \in {"train", "dev", "test"}}

InitSplits ==
    /\ recipe \in {"ami", "ami2"}
    /\ corpus = [is_dir |-> FALSE, audio |-> <<>>, trans |-> <<>>]
    /\ output_dir = FALSE
    /\ pc = "split"
    /\ error = "none"
    /\ part = 1
    /\ i = 1
    /\ recordings = <<>>
    /\ supervisions = <<>>
    /\ supervision_id = 0
    /\ WORDLIST = {}
    /\ annotation_by_id = <<>>
    /\ validated = {}
    /\ fixed = [recordings |-> <<>>, supervisions |-> <<>>]
    /\ written = {}
    /\ manifests = <<>>
    /\ counters = <<0, 0>>
    /\ uttids = <<>>
    /\ split_meeting \in AllMeetings
    /\ splits = [ami |-> <<>>, ami2 |-> <<>>]

\* The splits of ami.py whose list holds the meeting.
SplitAmi ==
    /\ pc = "split" /\ splits.ami = <<>>
    /\ splits' = [splits EXCEPT !.ami =
                     <<{p \in {"train", "dev", "test"} : InList(split_meeting, PARTITIONS(p))}>>]
    /\ UNCHANGED <<recipe, corpus, output_dir, pc, error, part, i, recordings,
                   supervisions, supervision_id, WORDLIST, annotation_by_id,
                   validated, fixed, written, manifests, counters, uttids,
                   split_meeting>>

\* The splits of ami2.py whose list holds the meeting.
SplitAmi2 ==
    /\ pc = "split" /\ splits.ami2 = <<>>
    /\ splits' = [splits EXCEPT !.ami2 =
                     <<{p \in {"train", "dev", "test"} : InList(split_meeting, Ami2Partitions(p))}>>]
    /\ UNCHANGED <<recipe, corpus, output_dir, pc, error, part, i, recordings,
                   supervisions, supervision_id, WORDLIST, annotation_by_id,
                   validated, fixed, written, manifests, counters, uttids,
                   split_meeting>>

NextSplits == SplitAmi \/ SplitAmi2

SpecSplits == InitSplits /\ [][NextSplits]_vars

(***************************************************************************)
(* Properties                                                              *)
(***************************************************************************)
\* Every supervision of sups refers to a recording of recs.
RefsResolve(recs, sups) ==
    \A k \in 1..Len(sups) : \E j \in 1..Len(recs) : recs[j].id = sups[k].recording_id

\* The step processes the transcript record PartTrans[i] to its end.
RecordStep(rcps) == recipe \in rcps /\ pc = "transcripts" /\ i' = i + 1

\* A record its parser cannot parse.
Malformed(rcp, rec) ==
    CASE rcp \in {"ami", "safet"} -> ~rec.parses
      [] rcp = "chime5" -> ~rec.has_words \/ ~rec.time_parses \/ rec.time_form # "dict"
      [] rcp = "chime6" -> ~rec.has_words \/ ~rec.time_parses \/ rec.time_form # "str"

\* C1: in every collection prepare_ami, prepare_safet or prepare_ru_open_stt
\* has produced, each supervision has start >= 0, duration > 0 and ends no
\* later than the recording it references.
C1_SegmentsInsideRecordings ==
    recipe \in {"ami", "safet", "ru_open_stt"} =>
        \A k \in 1..Len(manifests) :
            \A n \in 1..Len(manifests[k].supervisions) :
                LET s == manifests[k].supervisions[n] IN
                /\ s.start >= 0
                /\ s.duration > 0
                /\ \A j \in 1..Len(manifests[k].recordings) :
                      manifests[k].recordings[j].id = s.recording_id
                      => s.start + s.duration <= manifests[k].recordings[j].duration

\* C2: in both CHiME recipes an entry whose parsed end_time <= start_time
\* adds no supervision segment.
EndNotAfterStart(x) ==
    IF x.time_form = "dict"
    THEN \A m \in DOMAIN x.end_time :
            HmsToSeconds(x.end_time[m]) <= HmsToSeconds(x.start_time[m])
    ELSE HmsToSeconds(x.end_time) <= HmsToSeconds(x.start_time)

C2_NoSegmentUnlessEndAfterStart ==
    [][ ( /\ RecordStep({"chime5", "chime6"})
          /\ PartTrans[i].time_parses
          /\ EndNotAfterStart(PartTrans[i]) )
        => supervisions' = supervisions ]_vars

\* C3: a record whose end_time exceeds the duration of the recording it
\* refers to adds no supervision segment, in prepare_safet and in prepare_ami.
C3_OverrunDropped ==
    [][ /\ ( /\ RecordStep({"safet"})
             /\ \E j \in 1..Len(recordings) :
                   /\ recordings[j].id = SafetRecordingId(PartName, PartTrans[i].stem)
                   /\ PartTrans[i].end_time > recordings[j].duration )
           => supervisions' = supervisions
        /\ (recipe = "ami" /\ pc = "segments" /\ i' = i + 1)
           => \A n \in (Len(supervisions) + 1)..Len(supervisions') :
                 supervisions'[n].start + supervisions'[n].duration
                     <= recordings[i].duration ]_vars

\* A speaker field "<label>:" whose label starts with 'background'.
BackgroundField(field) ==
    /\ StartsWith(field, Background)
    /\ field[Len(field)] = ":"

\* C4: in prepare_safet, in every part, a line whose speaker label starts
\* with 'background' adds no supervision segment.
C4_BackgroundDropped ==
    [][ (RecordStep({"safet"}) /\ BackgroundField(PartTrans[i].speaker))
        => supervisions' = supervisions ]_vars

\* C4 witness: a well-formed background line with a text that survives
\* normalization and a positive duration has just been processed.
C4_Witness ==
    /\ recipe = "safet" /\ pc = "transcripts" /\ i > 1
    /\ PartName = "dev_clean"
    /\ LET line == PartTrans[i - 1] IN
       /\ BackgroundField(line.speaker)
       /\ SafetCleaned(PartName, line.words, WORDLIST) # <<>>
       /\ line.end_time - line.start_time - Guard > 0

\* C5: in every split prepare_ami builds, writes or returns, each
\* supervision's recording_id is the id of a recording of the same split.
C5_SplitRefsResolve ==
    recipe \in {"ami", "ami2"} =>
        /\ \A k \in 1..Len(manifests) :
              RefsResolve(manifests[k].recordings, manifests[k].supervisions)
        /\ pc \in {"write", "validate_part", "done"} =>
              \A p \in Range(DatasetParts(recipe)) :
                  RefsResolve(RecordingPart(recordings, p),
                              SupervisionPart(supervisions, p))

\* C5 witness: prepare_ami has returned and a split holds a supervision.
C5_Witness ==
    /\ recipe = "ami" /\ pc = "done"
    /\ \E k \in 1..Len(manifests) : manifests[k].supervisions # <<>>

\* C6: no supervision refers to a recording id the recording collection of
\* the partition does not hold, in prepare_ami, CHiME-5 prepare_chime and
\* prepare_safet.
C6_NoSegmentWithoutRecording ==
    recipe \in {"ami", "chime5", "safet"} => RefsResolve(recordings, supervisions)

\* The splits whose returned recording collection holds r.
SplitsOfRecording(r) ==
    {k \in 1..Len(manifests) : r \in Range(manifests[k].recordings)}

SplitsOfSupervision(s) ==
    {k \in 1..Len(manifests) : s \in Range(manifests[k].supervisions)}

Listed(meeting) == \E p \in {"train", "dev", "test"} : InList(meeting, PARTITIONS(p))

\* C7: the three meeting lists of 'full-corpus-asr' are pairwise disjoint;
\* when prepare_ami returns, every loaded recording of a listed meeting is in
\* exactly one split, and every supervision is in the split of its recording
\* and in no other.
C7_DisjointCover ==
    /\ \A p, q \in {"train", "dev", "test"} :
          p # q => Range(PARTITIONS(p)) \cap Range(PARTITIONS(q)) = {}
    /\ (recipe = "ami" /\ pc = "done") =>
          /\ \A r \in Range(recordings) :
                Listed(MeetingOf(r.id)) => Cardinality(SplitsOfRecording(r)) = 1
          /\ \A s \in Range(supervisions) :
                Listed(MeetingOf(s.recording_id)) =>
                    /\ Cardinality(SplitsOfSupervision(s)) = 1
                    /\ \A k \in SplitsOfSupervision(s) :
                          \E r \in Range(manifests[k].recordings) :
                              r.id = s.recording_id

\* C7 witness: prepare_ami has returned over recordings of a train, a dev, a
\* test and an unlisted meeting, with a supervision in some split.
C7_Witness ==
    /\ recipe = "ami" /\ pc = "done"
    /\ Len(recordings) = 4
    /\ \E r \in Range(recordings) : ~Listed(MeetingOf(r.id))
    /\ \E k \in 1..Len(manifests) : manifests[k].supervisions # <<>>

\* C8: a file of a partition is written only after the validation of that
\* partition's pair has passed.
C8_WrittenOnlyIfValidated ==
    \A f \in written : f[1] \in validated

\* C9: when the validation of a partition fails, the remaining partitions
\* are still processed: a run never ends on a failed validation with
\* partitions left.
C9_OtherPartitionsAttempted ==
    ( /\ recipe \in {"chime5", "safet", "ami"}
      /\ pc = "failed" /\ error = "validation" /\ part >= 1 )
    => LastPart

\* C10: a malformed transcript line or record never aborts the run.
C10_MalformedRecordSkipped ==
    ~ ( /\ recipe \in {"ami", "safet", "chime5", "chime6"}
        /\ pc = "failed" /\ error = "parse"
        /\ \E k \in 1..Len(corpus.trans) : Malformed(recipe, corpus.trans[k]) )

\* C11: an audio file whose metadata cannot be read never aborts the run of
\* prepare_ami, CHiME-5 prepare_chime or prepare_safet.
C11_UnreadableAudioSkipped ==
    recipe \in {"ami", "chime5", "safet"} => ~(pc = "failed" /\ error = "audio")

\* C12: no segment emitted by prepare_safet or by prepare_chime (CHiME-5,
\* CHiME-6) has an empty text.
C12_NoEmptyText ==
    recipe \in {"safet", "chime5", "chime6"} =>
        \A k \in 1..Len(supervisions) : supervisions[k].text # <<>>

\* C13: no two segments emitted for one partition by prepare_chime (CHiME-5,
\* CHiME-6), prepare_safet or prepare_ami carry the same id.
C13_UniqueIds ==
    recipe \in {"chime5", "chime6", "safet", "ami"} =>
        \A j, k \in 1..Len(supervisions) :
            j # k => supervisions[j].id # supervisions[k].id

\* C13 witness: the 'train' part of CHiME-6 holds two segments of one
\* recording.
C13_Witness ==
    /\ recipe = "chime6" /\ part = 2
    /\ Len(supervisions) >= 2
    /\ supervisions[1].recording_id = supervisions[2].recording_id

\* Consecutive word annotations of one speaker of one meeting joined into
\* one segment while the gap between them is at most max_pause.
RECURSIVE CoalesceWords(_, _, _)
CoalesceWords(words, max_pause, segs) ==
    IF words = <<>> THEN segs
    ELSE LET w == Head(words)
             n == Len(segs)
         IN IF /\ n > 0
               /\ segs[n].meeting_id = w.meeting_id
               /\ segs[n].spkr = w.spkr
               /\ w.st_time - segs[n].end_time <= max_pause
            THEN CoalesceWords(Tail(words), max_pause,
                               [segs EXCEPT ![n].end_time = w.end_time])
            ELSE CoalesceWords(Tail(words), max_pause,
                               Append(segs, [meeting_id |-> w.meeting_id,
                                             spkr |-> w.spkr,
                                             st_time |-> w.st_time,
                                             end_time |-> w.end_time]))

\* C14: over lines it can parse, parse_ami_annotations of ami2.py returns
\* the word annotations coalesced by speaker and max_pause.
C14_CoalescesWithinMaxPause ==
    ( /\ recipe = "ami2" /\ pc = "failed"
      /\ error \notin {"AssertionError", "parse"} )
    => annotation_by_id = Some(CoalesceWords(corpus.trans, corpus.max_pause, <<>>))

\* C15: when prepare_ami returns, the manifests hold exactly one entry for
\* each of the keys 'train', 'dev' and 'eval'.
C15_ManifestKeys ==
    (recipe \in {"ami", "ami2"} /\ pc = "done") =>
        /\ Len(manifests) = 3
        /\ {manifests[k].part : k \in 1..Len(manifests)} = {"train", "dev", "eval"}

C18_NormalizationPure ==
    [][ (RecordStep({"safet"}) /\ PartName # "dev") =>
        LET line == PartTrans[i]
            expected == ProcessTranscript(line.words, Lexicon)
        IN IF SafetSkips(DropLast(line.speaker), expected)
           THEN supervisions' = supervisions
           ELSE /\ Len(supervisions') = Len(supervisions) + 1
                /\ supervisions'[Len(supervisions')].text = expected ]_vars

\* The audio files and transcripts under the directory of a split.
FilesUnder(files, dir) == {files[k].id : k \in {n \in 1..Len(files) : files[n].dir = dir}}
StemsUnder(files, dir) == {files[k].stem : k \in {n \in 1..Len(files) : files[n].dir = dir}}

\* C19: each manifest of prepare_ru_open_stt holds only recordings and
\* supervisions found under its own split's directory, and the 'val' and
\* 'train' manifests share none.
C19_SplitsOwnFilesOnly ==
    recipe = "ru_open_stt" =>
        /\ \A k \in 1..Len(manifests) :
              LET m == manifests[k] IN
              /\ \A r \in Range(m.recordings) : r.id \in FilesUnder(corpus.audio, m.part)
              /\ \A u \in Range(m.supervisions) : u.id \in StemsUnder(corpus.trans, m.part)
        /\ \A j, k \in 1..Len(manifests) :
              j # k =>
                /\ Range(manifests[j].recordings) \cap Range(manifests[k].recordings) = {}
                /\ Range(manifests[j].supervisions) \cap Range(manifests[k].supervisions) = {}

\* The fields two channel copies of a segment share.
SameButIdAndChannel(a, b) ==
    /\ a.recording_id = b.recording_id /\ a.start = b.start
    /\ a.duration = b.duration /\ a.speaker = b.speaker /\ a.text = b.text

\* C20: in CHiME-6 prepare_chime a kept (record, recording id) pair adds, in
\* the 'train' part, two segments with channels 0 and 1, distinct ids and
\* otherwise equal fields, and in the 'dev' part one segment with channel 0.
C20_ChannelCopies ==
    [][ ( /\ RecordStep({"chime6"})
          /\ ~Redacted(PartTrans[i])
          /\ ~TimeSkip6(HmsToSeconds(PartTrans[i].end_time),
                        HmsToSeconds(PartTrans[i].start_time)) )
        => LET cands == Candidates6(PartTrans[i], GetMicrophonetypeList(PartName))
               n == Len(supervisions)
           IN IF PartName = "train"
              THEN /\ Len(supervisions') = n + 2 * Len(cands)
                   /\ \A m \in 1..Len(cands) :
                         LET a == supervisions'[n + 2 * m - 1]
                             b == supervisions'[n + 2 * m]
                         IN /\ a.channel = 0 /\ b.channel = 1
                            /\ a.id # b.id
                            /\ a.recording_id = cands[m].recording_id
                            /\ SameButIdAndChannel(a, b)
              ELSE /\ Len(supervisions') = n + Len(cands)
                   /\ \A m \in 1..Len(cands) :
                         /\ supervisions'[n + m].channel = 0
                         /\ supervisions'[n + m].recording_id = cands[m].recording_id
      ]_vars

\* C20 witness: a 'dev' record was kept and returned, and the 'train' part
\* holds the two channel copies of a kept record.
C20_Witness ==
    /\ recipe = "chime6" /\ part = 2
    /\ Len(manifests) = 1 /\ Len(manifests[1].supervisions) = 1
    /\ Len(supervisions) = 2
    /\ supervisions[1].channel = 0 /\ supervisions[2].channel = 1

\* The code point order of two characters that differ (digits only).
CharLess(c, d) ==
    (CHOOSE n \in 0..9 : DigitChar(n) = c) < (CHOOSE n \in 0..9 : DigitChar(n) = d)

\* s < t for Python strings
RECURSIVE LexLess(_, _)
LexLess(s, t) ==
    IF t = <<>> THEN FALSE
    ELSE IF s = <<>> THEN TRUE
    ELSE IF Head(s) = Head(t) THEN LexLess(Tail(s), Tail(t))
    ELSE CharLess(Head(s), Head(t))

\* C16: two ids generated in one partition with the same prefix are in
\* lexicographic order exactly when their counters are in numeric order.
C16_IdsSortByCounter ==
    Len(uttids) = 2 =>
        (counters[1] < counters[2] <=> LexLess(uttids[1], uttids[2]))

\* The ids the statement lists for a microphone type of a session.
ListedIds5(mictype, session_id, speaker_id) ==
    IF mictype = Original
    THEN << [mictype |-> mictype,
             recording_id |-> session_id \o <<"_">> \o speaker_id] >>
    ELSE [n \in 1..4 |->
            [mictype |-> mictype,
             recording_id |-> session_id \o <<"_">> \o mictype
                              \o <<".", "C", "H", DigitChar(n)>>]]

\* The listed ids of an entry over worn, U01, ..., U06, in that order.
ListedCandidates5(x) ==
    ListedIds5(Original, x.session_id, x.speaker)
    \o ListedIds5(U(1), x.session_id, x.speaker)
    \o ListedIds5(U(2), x.session_id, x.speaker)
    \o ListedIds5(U(3), x.session_id, x.speaker)
    \o ListedIds5(U(4), x.session_id, x.speaker)
    \o ListedIds5(U(5), x.session_id, x.speaker)
    \o ListedIds5(U(6), x.session_id, x.speaker)

\* The candidates of an entry that the timestamp test lets through.
Attempted5(x) ==
    SelectSeq(ListedCandidates5(x),
              LAMBDA c : ~TimeSkip5(HmsToSeconds(x.end_time[c.mictype]),
                                    HmsToSeconds(x.start_time[c.mictype])))

\* C21: chime5.get_recording_id_list returns exactly <session>_<speaker> for
\* 'original' and the four ids <session>_<mictype>.CH1 .. CH4, in that
\* order, for any other microphone type; and prepare_chime adds, for a
\* record it keeps, one segment per returned id that passes the timestamp
\* test, in order, each with the start and duration of the record on that
\* microphone and the text of the record.
C21_FanOut ==
    [][ ( /\ RecordStep({"chime5"})
          /\ ~Redacted(PartTrans[i])
          /\ PartTrans[i].time_form = "dict" /\ PartTrans[i].time_parses )
        => LET x == PartTrans[i]
               a == Attempted5(x)
           IN /\ \A m \in MicTypes5 :
                    LET l == ListedIds5(m, x.session_id, x.speaker)
                        r == GetRecordingIdList5(m, x.session_id, x.speaker)
                    IN /\ Len(r) = Len(l)
                       /\ \A k \in 1..Len(l) : r[k] = l[k].recording_id
              /\ Len(supervisions') = Len(supervisions) + Len(a)
              /\ SubSeq(supervisions', 1, Len(supervisions)) = supervisions
              /\ \A k \in 1..Len(a) :
                    LET s == supervisions'[Len(supervisions) + k] IN
                    /\ s.recording_id = a[k].recording_id
                    /\ s.start = HmsToSeconds(x.start_time[a[k].mictype])
                    /\ s.duration = HmsToSeconds(x.end_time[a[k].mictype])
                                    - HmsToSeconds(x.start_time[a[k].mictype])
                    /\ s.text = CleanWords(x.words) ]_vars

\* A record was fanned out over the worn microphone and the 24 array
\* channels, whose times differ from the worn microphone's.
C21_Witness ==
    /\ recipe = "chime5" /\ pc = "transcripts"
    /\ Len(supervisions) = 25
    /\ supervisions[1].recording_id = S02 \o <<"_">> \o P05
    /\ supervisions[1].start = 100 /\ supervisions[1].duration = 20
    /\ supervisions[2].recording_id =
           S02 \o <<"_", "U", "0", "1", ".", "C", "H", "1">>
    /\ supervisions[2].start = 101 /\ supervisions[2].duration = 22
    /\ supervisions[25].recording_id =
           S02 \o <<"_", "U", "0", "6", ".", "C", "H", "4">>

\* The array microphones the table lists for a session, as the statement
\* reads it.
ListedSessions == { <<"S","0","1">>, <<"S","0","5">>, <<"S","0","9">>, <<"S","2","2">> }
ListedMics(session_id) ==
    CASE session_id = <<"S","0","1">> -> {U(1), U(2), U(4), U(5), U(6)}
      [] session_id = <<"S","0","5">> -> {U(1), U(2), U(5), U(6)}
      [] session_id = <<"S","0","9">> -> {U(1), U(2), U(3), U(4), U(6)}
      [] session_id = <<"S","2","2">> -> {U(1), U(2), U(4), U(5), U(6)}

\* C22: chime6.get_recording_id_list returns no candidate for session S12,
\* whatever the microphone type, so no supervision of a CHiME-6 run refers to
\* a recording of S12; and for a session listed in Session2Microphones it
\* returns no candidate for an array microphone not listed for that session.
C22_S12AndUnlistedMicsExcluded ==
    /\ \A m \in MicTypes5 : \A spk \in {P05, P09} :
          GetRecordingIdList6(m, S12, spk) = <<>>
    /\ \A sess \in ListedSessions : \A n \in 1..6 : \A spk \in {P05, P09} :
          U(n) \notin ListedMics(sess)
          => GetRecordingIdList6(U(n), sess, spk) = <<>>
    /\ recipe = "chime6" =>
          /\ \A k \in 1..Len(supervisions) :
                ~StartsWith(supervisions[k].recording_id, S12)
          /\ \A n \in 1..Len(manifests) :
                \A k \in 1..Len(manifests[n].supervisions) :
                   ~StartsWith(manifests[n].supervisions[k].recording_id, S12)

\* An entry of session S12, whose worn recording is among the recordings,
\* was processed after an entry of S02 that gave a segment.
C22_Witness ==
    /\ recipe = "chime6" /\ pc = "transcripts" /\ i = 3
    /\ PartTrans[2].session_id = S12 /\ ~Redacted(PartTrans[2])
    /\ PartTrans[2].time_parses
    /\ \E k \in 1..Len(recordings) : StartsWith(recordings[k].id, S12)
    /\ Len(supervisions) = 1

\* The tokens the statement lists, and the text it describes for the cleaned
\* words of an entry.
StatedUnkTokens ==
    { <<"[","i","n","a","u","d","i","b","l","e","]">>,
      <<"[","l","a","u","g","h","s","]">>,
      <<"[","n","o","i","s","e","]">>,
      <<"m","h","m">>, <<"m","m">>, <<"m","m","m">>, <<"h","m","m">> }

StatedText6(words) ==
    [k \in 1..Len(words) |->
        IF words[k] \in StatedUnkTokens THEN <<"<","u","n","k",">">> ELSE words[k]]

\* C23: in chime6.py the text of a segment is the cleaned words of its
\* record with the tokens [inaudible], [laughs], [noise], mhm, mm, mmm and
\* hmm replaced by <unk> and every other word unchanged.
C23_UnkTokens ==
    [][ RecordStep({"chime6"}) =>
          \A k \in (Len(supervisions) + 1)..Len(supervisions') :
              supervisions'[k].text = StatedText6(CleanWords(PartTrans[i].words))
      ]_vars

\* The tokens the statement gives the words of a line: the upper-cased word
\* when the lexicon of the call holds it, '<UNK>' otherwise.
StatedTokens(words) ==
    [k \in 1..Len(words) |->
        IF CaseNormalize(words[k]) \in Lexicon
        THEN CaseNormalize(words[k]) ELSE "<UNK>"]

\* C24: in the parts of prepare_safet other than 'dev' a line yields one
\* token per word, the upper-cased word when it is in the lexicon and
\* '<UNK>' otherwise, and a line without an in-lexicon word is dropped; in
\* 'dev' the text of a kept line is the text as read.
C24_SafetTokens ==
    [][ RecordStep({"safet"}) =>
        LET line == PartTrans[i]
            tokens == StatedTokens(line.words)
            dropped == supervisions' = supervisions
            kept(text) == /\ Len(supervisions') = Len(supervisions) + 1
                          /\ supervisions'[Len(supervisions')].text = text
        IN IF PartName = "dev"
           THEN dropped \/ kept(line.words)
           ELSE IF \A k \in 1..Len(tokens) : tokens[k] = "<UNK>"
           THEN dropped
           ELSE BackgroundField(line.speaker) \/ kept(tokens) ]_vars

\* The recording a line of the current part refers to, if it was loaded.
SafetRecordingsOf(line) ==
    {k \in 1..Len(recordings) :
        recordings[k].id = SafetRecordingId(PartName, line.stem)}

\* The segment ends after the end of the recording: by a tenth or more, or
\* at the same tenth and later by the rounding of the binary64 sum.
EndsAfter(s, recording) ==
    \/ s.start + s.duration > recording.duration
    \/ /\ s.start + s.duration = recording.duration
       /\ s.end_excess > 0

\* A line step of prepare_safet that appends a segment.
SafetKeeps ==
    /\ RecordStep({"safet"})
    /\ Len(supervisions') = Len(supervisions) + 1

C26_WrittenIsValidated ==
    [][ ( /\ recipe = "chime6" /\ pc = "write"
          /\ Len(manifests') = Len(manifests) + 1 )
        => /\ manifests'[Len(manifests')].recordings = fixed.recordings
           /\ manifests'[Len(manifests')].supervisions = fixed.supervisions
      ]_vars

\* The segment loop of prepare_ami has visited every recording.
AmiSegmentsDone ==
    /\ recipe = "ami"
    /\ \/ pc = "segments" /\ i > Len(recordings)
       \/ pc \in {"write", "validate_part", "done"}

\* The segments of a recording that carry an annotation line.
SegmentsOfLine(recording, line) ==
    {k \in 1..Len(supervisions) :
        /\ supervisions[k].recording_id = recording.id
        /\ supervisions[k].speaker = line.spk
        /\ supervisions[k].start = line.st_time
        /\ supervisions[k].duration = line.end_time - line.st_time
        /\ supervisions[k].text = line.text}

\* C27: in ami.py, for a meeting whose recording was discovered, every
\* parsed annotation with end_time > begin_time and end_time <= the
\* recording's duration yields exactly one segment, whichever speaker of the
\* meeting it belongs to.
C27_EveryAnnotationYieldsSegment ==
    AmiSegmentsDone =>
        \A r \in 1..Len(recordings) : \A n \in 1..Len(corpus.trans) :
            LET line == corpus.trans[n] IN
            ( /\ line.meeting_id = MeetingOf(recordings[r].id)
              /\ line.end_time > line.st_time
              /\ line.end_time <= recordings[r].duration )
            => Cardinality(SegmentsOfLine(recordings[r], line))
               = Cardinality({m \in 1..Len(corpus.trans) : corpus.trans[m] = line})

\* The meeting is one of ami2.MEETINGS.
InMeetings(m) == \E k \in 1..Len(MEETINGS) : m \in Range(MEETINGS[k].meetings)

\* C28: the train, dev and test lists of 'full-corpus-asr' hold the same
\* meetings in ami.py and in ami2.py (a meeting id is in the same splits of
\* both tables), and every meeting of ami2.MEETINGS is in exactly one split
\* in both tables.
C28_SameSplits ==
    (pc = "split" /\ splits.ami # <<>> /\ splits.ami2 # <<>>) =>
        /\ splits.ami = splits.ami2
        /\ InMeetings(split_meeting) =>
              /\ Cardinality(splits.ami[1]) = 1
              /\ Cardinality(splits.ami2[1]) = 1

\* The words of the entry contain the substring '[redacted]'.
HasRedactedWord(x) ==
    \E k \in 1..Len(x.words) :
        \E n \in 0..(Len(x.words[k]) - 10) :
            SubSeq(x.words[k], n + 1, n + 10)
                = <<"[","r","e","d","a","c","t","e","d","]">>

\* C29: in chime5.py and chime6.py a record whose words contain
\* '[redacted]' adds no segment, for any microphone type, and does not
\* advance the sequence counter.
C29_RedactedSkipped ==
    [][ ( /\ RecordStep({"chime5", "chime6"})
          /\ HasRedactedWord(PartTrans[i]) )
        => /\ supervisions' = supervisions
           /\ supervision_id' = supervision_id ]_vars

\* A redacted record was passed over after a record that was fanned out
\* over every microphone.
C29_Witness ==
    /\ recipe = "chime5" /\ pc = "transcripts" /\ i = 3
    /\ HasRedactedWord(PartTrans[2])
    /\ ~HasRedactedWord(PartTrans[1])
    /\ Len(supervisions) = 25 /\ supervision_id = 25

\* The six-digit counter field of an id with the value k < 100.
CounterField(k) ==
    <<"0", "0", "0", "0", DigitChar(k \div 10), DigitChar(k % 10)>>

\* The ids of a list of segments carry the counters 1, 2, ... in order.
CountersInOrder(sups) ==
    \A k \in 1..Len(sups) :
        SubSeq(sups[k].id, Len(sups[k].id) - 5, Len(sups[k].id)) = CounterField(k)

\* C30: in chime6.py and safet.py the sequence counter restarts at 0 for
\* every partition and advances only when a segment is emitted, so the
\* counters in the ids of a partition are 1..N in emission order, without
\* gaps.
C30_CountersWithoutGaps ==
    recipe \in {"chime6", "safet"} =>
        /\ supervision_id = Len(supervisions)
        /\ CountersInOrder(supervisions)
        /\ \A n \in 1..Len(manifests) : CountersInOrder(manifests[n].supervisions)

\* A CHiME-6 record was emitted after a record that the timestamp test
\* dropped: the counter and the id of the segment show 1.
C30_Witness ==
    /\ recipe = "chime6" /\ pc = "transcripts" /\ i = 3
    /\ PartTrans[1].time_parses /\ ~HasRedactedWord(PartTrans[1])
    /\ TimeSkip6(HmsToSeconds(PartTrans[1].end_time),
                 HmsToSeconds(PartTrans[1].start_time))
    /\ Len(supervisions) = 1 /\ supervision_id = 1
    /\ CountersInOrder(supervisions)

====
